---- MODULE Spec2Model ----
(***************************************************************************)
(* EMTU Live Checker: the monitoring/alerting core.                        *)
(*                                                                         *)
(*   index.js (EMTULiveChecker)  src/unnamed/part_005  lines 282-744       *)
(*   AlertManager                src/src/services/alertManager.js          *)
(*   ConfigManager               src/unnamed/part_003                      *)
(*   EMTUService.findRoute       src/unnamed/part_002                      *)
(*   /monitor handler            src/src/services/MessageHandler.js        *)
(*                                                                         *)
(* Strings that are joined with "_" are modelled as sequences of           *)
(* underscore-free segments, so that `${a}_${b}` is a \o b and             *)
(* key.startsWith(chatId + '_') is a proper-prefix test on segments.       *)
(* Time is in seconds (the code works in milliseconds: 600 s = 600000 ms). *)
(* An async function runs atomically up to its next real suspension       *)
(* (network or file I/O); each suspension is a separate step.              *)
(***************************************************************************)
EXTENDS Integers, Sequences, FiniteSets, TLC

(***************************************************************************)
(* Bounds of the model.                                                    *)
(***************************************************************************)
MaxCmds == 3
MaxTicks == 3
MaxInFlight == 2
MaxAlerts == 2

(***************************************************************************)
(* Program constants.                                                      *)
(***************************************************************************)
cooldownPeriod == 600
DayLength == 86400
ProximityThreshold == 500
HistoryCap == 100
CheckInterval == 60
StartTime == 2 * DayLength - 900

(***************************************************************************)
(* Inputs.                                                                 *)
(***************************************************************************)
Chats == {<<"c1">>, <<"c2">>}
TypedRoutes == {<<"001">>, <<"002">>, <<"terminal">>, <<"999">>}
TypedStops == {<<"terminal">>, <<"nowhere">>}
Ways == {"ida", "norte"}
Vehicles == {<<"v1">>, <<"v2">>}
Distances == {280, 300, 800}
\* the instants at which the clock is read: 23:45, 23:47, 23:49, 23:57,
\* 23:58 and midnight
Instants == {StartTime + d : d \in {0, 120, 240, 720, 780, 900}}

\* getMockRoutes: the provider's route table; name holds the lower-cased
\* fragments that name.toLowerCase().includes(...) can match.
RouteTable ==
  << [id |-> <<"001">>, number |-> <<"001">>, name |-> {<<"terminal">>}],
     [id |-> <<"002">>, number |-> <<"002">>, name |-> {<<"terminal">>}],
     [id |-> <<"003">>, number |-> <<"003">>, name |-> {<<"terminal">>}] >>

\* getMockStops(routeId): the stops of a route.
StopTable ==
  << [id |-> <<"stop", "001">>, name |-> {<<"terminal">>}] >>

None == [none |-> TRUE]

VARIABLES
  now,                  \* Date.now(), seconds
  configurations,       \* ConfigManager.configurations: key -> config
  configFile,           \* the durable configurations document
  monitoringIntervals,  \* EMTULiveChecker.monitoringIntervals: key -> timer id
  timers,               \* the runtime's live intervals: timer id -> config
  nextTimer,            \* next timer id setInterval returns
  ticks,                \* checkBusProximity calls in flight
  tickCount,            \* timer callbacks fired so far
  alerts,               \* AlertManager.alerts: chatRouteKey -> history
  sentAlerts,           \* AlertManager.sentAlerts: alertKey -> mark
  alertsFile,           \* the durable alerts document
  sent,                 \* proximity notifications delivered by the transport
  cmds,                 \* chat commands suspended in a file write
  cmdCount,             \* chat commands received so far
  reply,                \* what the last finished call returned
  inbox,                \* inbound chat messages: id -> handling and deliveries
  status                \* the process: "serving" or "down"

vars == << now, configurations, configFile, monitoringIntervals, timers,
           nextTimer, ticks, tickCount, alerts, sentAlerts, alertsFile,
           sent, cmds, cmdCount, reply, inbox, status >>

(***************************************************************************)
(* Helpers.                                                                *)
(***************************************************************************)
Range(f) == {f[x] : x \in DOMAIN f}

\* Map.set(k, v)
MapSet(m, k, v) == [x \in DOMAIN m \cup {k} |-> IF x = k THEN v ELSE m[x]]

\* Map.delete(k)
MapDelete(m, k) == [x \in DOMAIN m \ {k} |-> m[x]]

\* key.startsWith(chatId + '_')
StartsWith(key, chatId) ==
  /\ Len(key) > Len(chatId)
  /\ SubSeq(key, 1, Len(chatId)) = chatId

\* new Date().setHours(0, 0, 0, 0): local midnight of the day of t
Midnight(t) == t - (t % DayLength)

generateConfigKey(chatId, routeNumber) == chatId \o routeNumber

generateAlertKey(chatId, routeId, vehicleId) == chatId \o routeId \o vehicleId

generateChatRouteKey(chatId, routeId) == chatId \o routeId

(***************************************************************************)
(* EMTUService (provider lookups).                                         *)
(***************************************************************************)
\* String.prototype.toLowerCase on one segment
ToLower(s) == IF s = <<"TERMINAL">> THEN <<"terminal">> ELSE s

\* routes.find(...) from position i of the route table
RECURSIVE FindRouteFrom(_, _)
FindRouteFrom(routeNumber, i) ==
  IF i > Len(RouteTable) THEN None
  ELSE IF \/ ToLower(RouteTable[i].number) = ToLower(routeNumber)
          \/ ToLower(routeNumber) \in RouteTable[i].name
       THEN RouteTable[i]
       ELSE FindRouteFrom(routeNumber, i + 1)

findRoute(routeNumber) == FindRouteFrom(routeNumber, 1)

\* stops.find(...) from position i of the stops of the route
RECURSIVE FindStopFrom(_, _)
FindStopFrom(stopName, i) ==
  IF i > Len(StopTable) THEN None
  ELSE IF ToLower(stopName) \in StopTable[i].name THEN StopTable[i]
       ELSE FindStopFrom(stopName, i + 1)

findStop(stopName, routeId) == FindStopFrom(stopName, 1)

(***************************************************************************)
(* ConfigManager.                                                          *)
(***************************************************************************)
\* Date.prototype.toISOString and new Date(isoString)
ToISO(t) == [iso |-> t]
FromISO(s) == s.iso

\* saveConfigurations: the document handed to fs.writeJson
SerializeConfigurations(confs) ==
  [k \in DOMAIN confs |->
     [confs[k] EXCEPT !.createdAt = ToISO(@), !.lastUpdated = ToISO(@)]]

\* loadConfigurations: the entries read back from the document
ParseConfigurations(doc) ==
  [k \in DOMAIN doc |->
     [doc[k] EXCEPT !.createdAt = FromISO(@), !.lastUpdated = FromISO(@)]]

\* saveConfiguration that keeps the entry a key already has
saveConfigurationKeepFirst(confs, chatId, routeNumber, config, t) == IF generateConfigKey(chatId, routeNumber) \in DOMAIN confs THEN confs ELSE MapSet(confs, generateConfigKey(chatId, routeNumber), [f \in DOMAIN config \cup {"lastUpdated"} |-> IF f = "lastUpdated" THEN t ELSE config[f]])

\* saveConfiguration, up to the file write
saveConfiguration(confs, chatId, routeNumber, config, t) ==
  MapSet(confs, generateConfigKey(chatId, routeNumber),
         [chatId |-> config.chatId, routeId |-> config.routeId,
          routeNumber |-> config.routeNumber, stopId |-> config.stopId,
          way |-> config.way,
          proximityThreshold |-> config.proximityThreshold,
          maxAlerts |-> config.maxAlerts, createdAt |-> config.createdAt,
          isActive |-> config.isActive, lastUpdated |-> t])

getConfiguration(confs, chatId, routeNumber) ==
  IF generateConfigKey(chatId, routeNumber) \in DOMAIN confs
  THEN confs[generateConfigKey(chatId, routeNumber)]
  ELSE None

\* the keys getActiveConfigurations selects
ActiveKeys(confs, chatId) ==
  {k \in DOMAIN confs : StartsWith(k, chatId) /\ confs[k].isActive}

\* getActiveConfigurations: the selected configs, newest createdAt first
getActiveConfigurations(confs, chatId) ==
  LET S == ActiveKeys(confs, chatId)
      order == CHOOSE f \in [1..Cardinality(S) -> S] :
                 /\ \A i, j \in 1..Cardinality(S) : i # j => f[i] # f[j]
                 /\ \A i, j \in 1..Cardinality(S) :
                      i < j => confs[f[i]].createdAt >= confs[f[j]].createdAt
  IN [i \in 1..Cardinality(S) |-> confs[order[i]]]

\* deactivateConfiguration that drops the entry
deactivateConfigurationDelete(confs, chatId, routeNumber, t) == MapDelete(confs, generateConfigKey(chatId, routeNumber))

\* deactivateConfiguration, up to the file write
deactivateConfiguration(confs, chatId, routeNumber, t) ==
  LET key == generateConfigKey(chatId, routeNumber)
  IN IF key \in DOMAIN confs
     THEN [confs EXCEPT ![key].isActive = FALSE, ![key].lastUpdated = t]
     ELSE confs

\* deactivateAllConfigurations, up to the file write
deactivateAllConfigurations(confs, chatId, t) ==
  [k \in DOMAIN confs |->
     IF StartsWith(k, chatId) /\ confs[k].isActive
     THEN [confs[k] EXCEPT !.isActive = FALSE, !.lastUpdated = t]
     ELSE confs[k]]

(***************************************************************************)
(* AlertManager.                                                           *)
(***************************************************************************)
History(hist, key) == IF key \in DOMAIN hist THEN hist[key] ELSE << >>

\* getTodayAlerts without the filter on today's midnight
getTodayAlertsEver(hist, t, chatId, routeId) ==
  History(hist, generateChatRouteKey(chatId, routeId))

getTodayAlerts(hist, t, chatId, routeId) ==
  SelectSeq(History(hist, generateChatRouteKey(chatId, routeId)),
            LAMBDA alert : alert.timestamp >= Midnight(t))

\* shouldSendAlert without the cooldown test
shouldSendAlertNoCooldown(marks, hist, t, chatId, routeId, vehicleId, maxAlerts) ==
  Len(getTodayAlerts(hist, t, chatId, routeId)) < maxAlerts

\* shouldSendAlert with a cooldown two minutes longer
shouldSendAlertLongCooldown(marks, hist, t, chatId, routeId, vehicleId, maxAlerts) ==
  LET alertKey == generateAlertKey(chatId, routeId, vehicleId)
  IN /\ ~(/\ alertKey \in DOMAIN marks
          /\ t - marks[alertKey].lastSent < cooldownPeriod + 120)
     /\ Len(getTodayAlerts(hist, t, chatId, routeId)) < maxAlerts

\* shouldSendAlert with the daily limit reached one alert early
shouldSendAlertOffByOne(marks, hist, t, chatId, routeId, vehicleId, maxAlerts) ==
  LET alertKey == generateAlertKey(chatId, routeId, vehicleId)
  IN /\ ~(/\ alertKey \in DOMAIN marks
          /\ t - marks[alertKey].lastSent < cooldownPeriod)
     /\ Len(getTodayAlerts(hist, t, chatId, routeId)) + 1 < maxAlerts

shouldSendAlert(marks, hist, t, chatId, routeId, vehicleId, maxAlerts) ==
  LET alertKey == generateAlertKey(chatId, routeId, vehicleId)
  IN IF /\ alertKey \in DOMAIN marks
        /\ t - marks[alertKey].lastSent < cooldownPeriod
     THEN FALSE
     ELSE IF Len(getTodayAlerts(hist, t, chatId, routeId)) >= maxAlerts
     THEN FALSE
     ELSE TRUE

\* recordAlert: sentAlerts.set(alertKey, ...)
recordMark(marks, t, chatId, routeId, vehicleId, distance) ==
  MapSet(marks, generateAlertKey(chatId, routeId, vehicleId),
         [chatId |-> chatId, routeId |-> routeId, vehicleId |-> vehicleId,
          lastSent |-> t, distance |-> distance])

\* a trim that keeps the oldest records
TrimOldest(list) == IF Len(list) > HistoryCap THEN SubSeq(list, 1, HistoryCap) ELSE list

\* alertList.splice(0, alertList.length - 100)
Trim(list) ==
  IF Len(list) > HistoryCap
  THEN SubSeq(list, Len(list) - HistoryCap + 1, Len(list))
  ELSE list

\* recordAlert: push onto the (chatId, routeId) history and trim it
recordHistory(hist, t, chatId, routeId, vehicleId, distance) ==
  LET key == generateChatRouteKey(chatId, routeId)
  IN MapSet(hist, key,
            Trim(Append(History(hist, key),
                        [vehicleId |-> vehicleId, distance |-> distance,
                         timestamp |-> t,
                         alertKey |-> generateAlertKey(chatId, routeId,
                                                       vehicleId)])))

\* saveAlerts: the document handed to fs.writeJson
SerializeAlerts(hist, marks) ==
  [alerts |-> [k \in DOMAIN hist |->
                 [i \in DOMAIN hist[k] |->
                    [hist[k][i] EXCEPT !.timestamp = ToISO(@)]]],
   sentAlerts |-> [k \in DOMAIN marks |->
                     [marks[k] EXCEPT !.lastSent = ToISO(@)]]]

\* loadAlerts: the history read back from the document
ParseAlertHistory(doc) ==
  [k \in DOMAIN doc.alerts |->
     [i \in DOMAIN doc.alerts[k] |->
        [doc.alerts[k][i] EXCEPT !.timestamp = FromISO(@)]]]

\* loadAlerts: the marks read back from the document
ParseSentAlerts(doc) ==
  [k \in DOMAIN doc.sentAlerts |->
     [doc.sentAlerts[k] EXCEPT !.lastSent = FromISO(@)]]

(***************************************************************************)
(* EMTULiveChecker: the scheduler.                                         *)
(***************************************************************************)
TaskKey(config) == generateConfigKey(config.chatId, config.routeNumber)

\* startMonitoring without its clearInterval
StartClearedNone(intervals, config) == {}

\* the interval ids that startMonitoring(config) clears
StartCleared(intervals, config) ==
  IF TaskKey(config) \in DOMAIN intervals
  THEN {intervals[TaskKey(config)]}
  ELSE {}

\* startMonitoring: the runtime's timer table afterwards
startMonitoringTimers(tm, intervals, config, id, t) ==
  LET kept == DOMAIN tm \ StartCleared(intervals, config)
  IN [i \in kept \cup {id} |->
        IF i = id THEN [config |-> config, due |-> t + CheckInterval]
        ELSE tm[i]]

\* startMonitoring: monitoringIntervals afterwards
startMonitoringMap(intervals, config, id) ==
  MapSet(intervals, TaskKey(config), id)

\* stopMonitoring without its clearInterval
StopClearedNone(intervals, chatId, routeNumber) == {}

\* the interval ids that stopMonitoring(chatId, routeNumber) clears
StopCleared(intervals, chatId, routeNumber) ==
  IF generateConfigKey(chatId, routeNumber) \in DOMAIN intervals
  THEN {intervals[generateConfigKey(chatId, routeNumber)]}
  ELSE {}

\* the keys stopAllMonitoring(chatId) visits
StopAllKeys(intervals, chatId) ==
  {k \in DOMAIN intervals : StartsWith(k, chatId)}

\* the interval ids that stopAllMonitoring(chatId) clears
StopAllCleared(intervals, chatId) ==
  {intervals[k] : k \in StopAllKeys(intervals, chatId)}

\* clearInterval on a set of ids
ClearIntervals(tm, ids) == [i \in DOMAIN tm \ ids |-> tm[i]]

(***************************************************************************)
(* Initial state: a fresh process with empty stores.                       *)
(***************************************************************************)
Init ==
  /\ now = StartTime
  /\ configurations = << >>
  /\ configFile = << >>
  /\ monitoringIntervals = << >>
  /\ timers = << >>
  /\ nextTimer = 1
  /\ ticks = {}
  /\ tickCount = 0
  /\ alerts = << >>
  /\ sentAlerts = << >>
  /\ alertsFile = SerializeAlerts(<< >>, << >>)
  /\ sent = << >>
  /\ cmds = {}
  /\ cmdCount = 0
  /\ reply = None
  /\ inbox = << >>
  /\ status = "serving"

schedVars == << monitoringIntervals, timers, nextTimer >>
tickVars == << ticks, tickCount, sent >>
alertVars == << alerts, sentAlerts, alertsFile >>
confVars == << configurations, configFile >>
cmdVars == << cmds, cmdCount, reply >>
procVars == << inbox, status >>

\* the clock advances
Advance(t) ==
  /\ t > now
  /\ now' = t
  /\ UNCHANGED << schedVars, tickVars, alertVars, confVars, cmdVars,
                  procVars >>

(***************************************************************************)
(* Chat commands.                                                          *)
(***************************************************************************)
Reply(op, chatId, arg, result) ==
  [op |-> op, chatId |-> chatId, arg |-> arg, result |-> result]

\* handleMonitorCommand that ends in a rejection
MonitorRejected(chatId, routeNumber, stopName, way) ==
  /\ cmdCount < MaxCmds
  /\ \/ findRoute(routeNumber) = None
     \/ way \notin {"ida", "volta"}
     \/ /\ findRoute(routeNumber) # None
        /\ findStop(stopName, findRoute(routeNumber).id) = None
  /\ cmdCount' = cmdCount + 1
  /\ reply' = Reply("monitor", chatId, routeNumber, "rejected")
  /\ UNCHANGED procVars
  /\ UNCHANGED << now, schedVars, tickVars, alertVars, confVars, cmds >>

\* the config object handleMonitorCommand builds
NewConfig(chatId, route, stop, way, t) ==
  [chatId |-> chatId, routeId |-> route.id, routeNumber |-> route.number,
   stopId |-> stop.id, way |-> way,
   proximityThreshold |-> ProximityThreshold, maxAlerts |-> MaxAlerts,
   createdAt |-> t, isActive |-> TRUE]

\* handleMonitorCommand up to the file write of saveConfiguration
MonitorBegin(chatId, routeNumber, stopName, way) ==
  /\ cmdCount < MaxCmds
  /\ findRoute(routeNumber) # None
  /\ way \in {"ida", "volta"}
  /\ findStop(stopName, findRoute(routeNumber).id) # None
  /\ LET route == findRoute(routeNumber)
         stop == findStop(stopName, route.id)
         config == NewConfig(chatId, route, stop, way, now)
         confs == saveConfiguration(configurations, chatId, routeNumber,
                                    config, now)
     IN /\ configurations' = confs
        /\ cmds' = cmds \cup
             {[id |-> cmdCount + 1, op |-> "monitor", chatId |-> chatId,
               arg |-> routeNumber, config |-> config,
               data |-> SerializeConfigurations(confs), ret |-> "started"]}
  /\ cmdCount' = cmdCount + 1
  /\ UNCHANGED procVars
  /\ UNCHANGED << now, schedVars, tickVars, alertVars, configFile, reply >>

\* handleMonitorCommand after the file write: startMonitoring and the answer
MonitorResume(cmd, ok) ==
  /\ cmd \in cmds
  /\ cmd.op = "monitor"
  /\ configFile' = IF ok THEN cmd.data ELSE configFile
  /\ timers' = startMonitoringTimers(timers, monitoringIntervals, cmd.config,
                                     nextTimer, now)
  /\ monitoringIntervals' = startMonitoringMap(monitoringIntervals,
                                               cmd.config, nextTimer)
  /\ nextTimer' = nextTimer + 1
  /\ cmds' = cmds \ {cmd}
  /\ reply' = Reply("monitor", cmd.chatId, cmd.arg, cmd.ret)
  /\ UNCHANGED procVars
  /\ UNCHANGED << now, tickVars, alertVars, configurations, cmdCount >>

\* stopMonitoring: the value it returns
stopMonitoringResult(intervals, chatId, routeNumber) ==
  generateConfigKey(chatId, routeNumber) \in DOMAIN intervals

\* handleStopCommand with a route: stopMonitoring up to the file write of
\* deactivateConfiguration, or to its return when nothing is written
StopBegin(chatId, routeNumber) ==
  /\ cmdCount < MaxCmds
  /\ cmdCount' = cmdCount + 1
  /\ LET key == generateConfigKey(chatId, routeNumber)
         ret == stopMonitoringResult(monitoringIntervals, chatId, routeNumber)
         confs == deactivateConfiguration(configurations, chatId,
                                          routeNumber, now)
     IN /\ timers' = ClearIntervals(timers, 
                       StopCleared(monitoringIntervals, chatId, routeNumber))
        /\ monitoringIntervals' =
             IF ret THEN MapDelete(monitoringIntervals, key)
             ELSE monitoringIntervals
        /\ IF ret /\ key \in DOMAIN configurations
           THEN /\ configurations' = confs
                /\ cmds' = cmds \cup
                     {[id |-> cmdCount + 1, op |-> "stop", chatId |-> chatId,
                       arg |-> routeNumber, config |-> None,
                       data |-> SerializeConfigurations(confs), ret |-> ret]}
                /\ UNCHANGED reply
           ELSE /\ reply' = Reply("stop", chatId, routeNumber, ret)
                /\ UNCHANGED << configurations, cmds >>
  /\ UNCHANGED procVars
  /\ UNCHANGED << now, nextTimer, tickVars, alertVars, configFile >>

\* stopAllMonitoring: the value it returns
stopAllMonitoringResult(intervals, chatId) ==
  Cardinality(StopAllKeys(intervals, chatId))

\* handleStopCommand without a route: stopAllMonitoring up to the file write
\* of deactivateAllConfigurations, or to its return when nothing is written
StopAllBegin(chatId) ==
  /\ cmdCount < MaxCmds
  /\ cmdCount' = cmdCount + 1
  /\ LET ret == stopAllMonitoringResult(monitoringIntervals, chatId)
         confs == deactivateAllConfigurations(configurations, chatId, now)
     IN /\ timers' = ClearIntervals(timers,
                       StopAllCleared(monitoringIntervals, chatId))
        /\ monitoringIntervals' =
             [k \in DOMAIN monitoringIntervals
                     \ StopAllKeys(monitoringIntervals, chatId) |->
                monitoringIntervals[k]]
        /\ IF ret > 0 /\ ActiveKeys(configurations, chatId) # {}
           THEN /\ configurations' = confs
                /\ cmds' = cmds \cup
                     {[id |-> cmdCount + 1, op |-> "stopAll",
                       chatId |-> chatId, arg |-> << >>, config |-> None,
                       data |-> SerializeConfigurations(confs), ret |-> ret]}
                /\ UNCHANGED reply
           ELSE /\ reply' = Reply("stopAll", chatId, << >>, ret)
                /\ UNCHANGED << configurations, cmds >>
  /\ UNCHANGED procVars
  /\ UNCHANGED << now, nextTimer, tickVars, alertVars, configFile >>

\* stopMonitoring / stopAllMonitoring after the file write: the answer
StopResume(cmd, ok) ==
  /\ cmd \in cmds
  /\ cmd.op \in {"stop", "stopAll"}
  /\ configFile' = IF ok THEN cmd.data ELSE configFile
  /\ cmds' = cmds \ {cmd}
  /\ reply' = Reply(cmd.op, cmd.chatId, cmd.arg, cmd.ret)
  /\ UNCHANGED procVars
  /\ UNCHANGED << now, schedVars, tickVars, alertVars, configurations,
                  cmdCount >>

(***************************************************************************)
(* Polling: one checkBusProximity call per timer callback.                 *)
(***************************************************************************)
\* what getVehiclePositions can return, each vehicle given by the distance
\* calculateDistance finds between it and the stop: no vehicle, one vehicle
\* at any distance, or several distinct vehicles within the threshold
Feeds ==
  UNION {{f \in [1..n -> [id : Vehicles, distance : Distances]] :
            /\ \A i, j \in 1..n : i # j => f[i].id # f[j].id
            /\ n > 1 => \A i \in 1..n : f[i].distance = 300} :
         n \in 0..Cardinality(Vehicles)}

\* the distance calculateDistance returns for a coordinate that is missing
\* or not a number; distances are otherwise not negative
NaN == -1

\* x <= y of numbers: false when x is NaN
LessOrEqual(x, y) == x # NaN /\ x <= y

\* the for loop that leaves out the test of the distance
EligibleAnyDistance(config, vehicle, marks, hist, t) == shouldSendAlert(marks, hist, t, config.chatId, config.routeId, vehicle.id, config.maxAlerts)

\* the body of the for loop up to `if (shouldSendAlert)`
Eligible(config, vehicle, marks, hist, t) ==
  /\ LessOrEqual(vehicle.distance, config.proximityThreshold)
  /\ shouldSendAlert(marks, hist, t, config.chatId, config.routeId,
                     vehicle.id, config.maxAlerts)

\* the for loop of checkBusProximity from position i: the position of the
\* first vehicle for which an alert is sent, 0 when the loop runs out
RECURSIVE NextAlert(_, _, _, _, _, _)
NextAlert(config, vehicles, i, marks, hist, t) ==
  IF i > Len(vehicles) THEN 0
  ELSE IF Eligible(config, vehicles[i], marks, hist, t) THEN i
  ELSE NextAlert(config, vehicles, i + 1, marks, hist, t)

\* the tick after the loop has run from position i to its next suspension
Continue(tick, vehicles, i, marks, hist, t) ==
  LET j == NextAlert(tick.config, vehicles, i, marks, hist, t)
  IN IF j = 0 THEN {}
     ELSE {[n |-> tick.n, timer |-> tick.timer, config |-> tick.config,
            pc |-> "send", vehicles |-> vehicles, i |-> j, data |-> None]}

\* a callback that would wait for every tick in flight to finish
TimerFireExclusive(id) ==
  /\ id \in DOMAIN timers
  /\ now >= timers[id].due
  /\ tickCount < MaxTicks
  /\ ticks = {}
  /\ timers' = [timers EXCEPT ![id].due = now + CheckInterval]
  /\ ticks' = ticks \cup
       {[n |-> tickCount + 1, timer |-> id, config |-> timers[id].config,
         pc |-> "fetch", vehicles |-> << >>, i |-> 0, data |-> None]}
  /\ tickCount' = tickCount + 1
  /\ UNCHANGED procVars
  /\ UNCHANGED << now, monitoringIntervals, nextTimer, sent, alertVars,
                  confVars, cmdVars >>

\* the setInterval callback of timer id fires
TimerFire(id) ==
  /\ id \in DOMAIN timers
  /\ now >= timers[id].due
  /\ tickCount < MaxTicks
  /\ Cardinality(ticks) < MaxInFlight
  /\ timers' = [timers EXCEPT ![id].due = now + CheckInterval]
  /\ ticks' = ticks \cup
       {[n |-> tickCount + 1, timer |-> id, config |-> timers[id].config,
         pc |-> "fetch", vehicles |-> << >>, i |-> 0, data |-> None]}
  /\ tickCount' = tickCount + 1
  /\ UNCHANGED procVars
  /\ UNCHANGED << now, monitoringIntervals, nextTimer, sent, alertVars,
                  confVars, cmdVars >>

\* getVehiclePositions and getStopLocation answer; the loop runs up to the
\* first notification
FetchDone(tick, feed) ==
  /\ tick \in ticks
  /\ tick.pc = "fetch"
  /\ ticks' = (ticks \ {tick})
                \cup Continue(tick, feed, 1, sentAlerts, alerts, now)
  /\ UNCHANGED procVars
  /\ UNCHANGED << now, schedVars, tickCount, sent, alertVars, confVars,
                  cmdVars >>

\* whatsapp.sendMessage of sendProximityAlert answers: delivered, followed
\* by recordAlert up to its file write; or failed, which ends the tick
SendDone(tick, ok) ==
  /\ tick \in ticks
  /\ tick.pc = "send"
  /\ LET c == tick.config
         v == tick.vehicles[tick.i]
         marks == recordMark(sentAlerts, now, c.chatId, c.routeId, v.id,
                             v.distance)
         hist == recordHistory(alerts, now, c.chatId, c.routeId, v.id,
                               v.distance)
     IN IF ok
        THEN /\ sent' = Append(sent, [chatId |-> c.chatId,
                                      routeId |-> c.routeId,
                                      vehicleId |-> v.id, time |-> now])
             /\ sentAlerts' = marks
             /\ alerts' = hist
             /\ ticks' = (ticks \ {tick}) \cup
                  {[tick EXCEPT !.pc = "save",
                                !.data = SerializeAlerts(hist, marks)]}
        ELSE /\ ticks' = ticks \ {tick}
             /\ UNCHANGED << sent, sentAlerts, alerts >>
  /\ UNCHANGED procVars
  /\ UNCHANGED << now, schedVars, tickCount, alertsFile, confVars, cmdVars >>

\* the file write of saveAlerts answers; the loop goes on with the next
\* vehicle
SaveDone(tick, ok) ==
  /\ tick \in ticks
  /\ tick.pc = "save"
  /\ alertsFile' = IF ok THEN tick.data ELSE alertsFile
  /\ ticks' = (ticks \ {tick})
                \cup Continue(tick, tick.vehicles, tick.i + 1, sentAlerts,
                              alerts, now)
  /\ UNCHANGED procVars
  /\ UNCHANGED << now, schedVars, tickCount, sent, alerts, sentAlerts,
                  confVars, cmdVars >>

\* the chat commands, with their arguments drawn from the given sets
Commands(chats, routes, stops, ways) ==
  \/ \E c \in chats, r \in routes, s \in stops, w \in ways :
       MonitorRejected(c, r, s, w)
  \/ \E c \in chats, r \in routes, s \in stops, w \in ways :
       MonitorBegin(c, r, s, w)
  \/ \E cmd \in cmds, ok \in BOOLEAN : MonitorResume(cmd, ok)
  \/ \E c \in chats, r \in routes : StopBegin(c, r)
  \/ \E c \in chats : StopAllBegin(c)
  \/ \E cmd \in cmds, ok \in BOOLEAN : StopResume(cmd, ok)

\* the polling tasks, with the provider's answers drawn from feeds
Polling(feeds) ==
  \/ \E id \in DOMAIN timers : TimerFire(id)
  \/ \E tick \in ticks, feed \in feeds : FetchDone(tick, feed)
  \/ \E tick \in ticks, ok \in BOOLEAN : SendDone(tick, ok)
  \/ \E tick \in ticks, ok \in BOOLEAN : SaveDone(tick, ok)

\* the clock
Clock(instants) == \E t \in instants : Advance(t)

\* the scheduler under every command of two chats; the clock and the
\* provider's answers are kept coarse
Next ==
  \/ Commands(Chats, TypedRoutes, TypedStops, Ways)
  \/ Polling({<< >>, <<[id |-> <<"v1">>, distance |-> 300]>>})
  \/ Clock({StartTime + 120})

Spec == Init /\ [][Next]_vars

\* the state in which "/monitor 001 terminal ida" of chat c1 has been
\* answered at StartTime by a fresh process
InitAlerts ==
  LET route == findRoute(<<"001">>)
      config == NewConfig(<<"c1">>, route, findStop(<<"terminal">>, route.id),
                          "ida", StartTime)
      confs == saveConfiguration(<< >>, <<"c1">>, <<"001">>, config,
                                 StartTime)
  IN /\ now = StartTime
     /\ configurations = confs
     /\ configFile = SerializeConfigurations(confs)
     /\ monitoringIntervals = startMonitoringMap(<< >>, config, 1)
     /\ timers = startMonitoringTimers(<< >>, << >>, config, 1, StartTime)
     /\ nextTimer = 2
     /\ ticks = {}
     /\ tickCount = 0
     /\ alerts = << >>
     /\ sentAlerts = << >>
     /\ alertsFile = SerializeAlerts(<< >>, << >>)
     /\ sent = << >>
     /\ cmds = {}
     /\ cmdCount = 1
     /\ reply = Reply("monitor", <<"c1">>, <<"001">>, "started")
     /\ inbox = << >>
     /\ status = "serving"

\* feeds of one or two vehicles at the threshold, one metre beyond it, or at
\* a distance that cannot be evaluated
ProximityFeeds ==
  UNION {{f \in [1..n -> [id : Vehicles,
                          distance : {ProximityThreshold,
                                      ProximityThreshold + 1, NaN}]] :
            \A i, j \in 1..n : i # j => f[i].id # f[j].id} :
         n \in 0..Cardinality(Vehicles)}

\* one running monitor with vehicles around its threshold
NextProximity ==
  Polling(ProximityFeeds) \/ Clock({StartTime + 120, StartTime + 240})

SpecProximity == InitAlerts /\ [][NextProximity]_vars

\* one chat's /monitor and /stop commands and its monitors' ticks, handled
\* concurrently, with every file write succeeding
NextWrites ==
  \/ \E r \in {<<"001">>, <<"002">>} : MonitorBegin(<<"c1">>, r, <<"terminal">>, "ida")
  \/ \E cmd \in cmds : MonitorResume(cmd, TRUE)
  \/ \E r \in {<<"001">>, <<"002">>} : StopBegin(<<"c1">>, r)
  \/ \E cmd \in cmds : StopResume(cmd, TRUE)
  \/ \E id \in DOMAIN timers : TimerFire(id)
  \/ \E tick \in ticks :
       FetchDone(tick, <<[id |-> <<"v1">>, distance |-> 300]>>)
  \/ \E tick \in ticks : SendDone(tick, TRUE)
  \/ \E tick \in ticks : SaveDone(tick, TRUE)
  \/ Clock({StartTime + 120, StartTime + 240})

SpecWrites == Init /\ [][NextWrites]_vars

\* the alert policy of one running monitor under every feed and instant
NextAlerts == Polling(Feeds) \/ Clock(Instants)

SpecAlerts == InitAlerts /\ [][NextAlerts]_vars

(***************************************************************************)
(* The process: shutdown and start.                                        *)
(***************************************************************************)
\* WhatsApp.initialize: whatever goes wrong is caught and printed, and the
\* call returns normally
whatsappInitialize(transportOk) == "returned"

\* loadConfigurations: a document that cannot be read is logged and the map
\* stays empty
loadConfigurations(file, storageOk) ==
  IF storageOk THEN ParseConfigurations(file) ELSE << >>

\* EMTULiveChecker.initialize: where its awaits leave the process
initialize(transportOk, storageOk) ==
  IF whatsappInitialize(transportOk) = "thrown" THEN "down" ELSE "serving"

\* the process ends: shutdown on a signal, or a crash; what it held in memory
\* is gone
Shutdown ==
  /\ status = "serving"
  /\ status' = "down"
  /\ configurations' = << >>
  /\ monitoringIntervals' = << >>
  /\ timers' = << >>
  /\ nextTimer' = 1
  /\ ticks' = {}
  /\ alerts' = << >>
  /\ sentAlerts' = << >>
  /\ cmds' = {}
  /\ inbox' = [id \in DOMAIN inbox |->
                 IF inbox[id].pc = "done" THEN inbox[id]
                 ELSE [inbox[id] EXCEPT !.pc = "lost"]]
  /\ UNCHANGED << now, configFile, alertsFile, tickCount, sent, cmdCount,
                  reply >>

\* the process starts: the constructors and initialize
Startup(transportOk, storageOk) ==
  /\ status = "down"
  /\ status' = initialize(transportOk, storageOk)
  /\ configurations' = loadConfigurations(configFile, storageOk)
  /\ alerts' = IF storageOk THEN ParseAlertHistory(alertsFile) ELSE << >>
  /\ sentAlerts' = IF storageOk THEN ParseSentAlerts(alertsFile) ELSE << >>
  /\ UNCHANGED << now, configFile, alertsFile, schedVars, tickVars, cmdVars,
                  inbox >>

\* getMockVehicles: the two vehicles getVehiclePositions returns when its
\* request fails, each given by its distance to the monitored stop
getMockVehicles(routeId, d1, d2) ==
  << [id |-> <<"vehicle">> \o routeId \o <<"001">>, distance |-> d1],
     [id |-> <<"vehicle">> \o routeId \o <<"002">>, distance |-> d2] >>

\* the request of getVehiclePositions fails; the loop runs on what the call
\* returned
FetchFailed(tick, d1, d2) ==
  FetchDone(tick, getMockVehicles(tick.config.routeId, d1, d2))

\* one chat, its commands, its monitors' ticks with failing requests, and
\* the process going down and up
NextRestart ==
  \/ /\ status = "serving"
     /\ Commands({<<"c1">>}, {<<"001">>, <<"999">>}, {<<"terminal">>}, {"ida"})
  \/ Polling({<< >>, <<[id |-> <<"v1">>, distance |-> 300]>>})
  \/ \E tick \in ticks, d1, d2 \in {300, 800} : FetchFailed(tick, d1, d2)
  \/ Clock({StartTime + 120})
  \/ Shutdown
  \/ \E transportOk, storageOk \in BOOLEAN : Startup(transportOk, storageOk)

SpecRestart == Init /\ [][NextRestart]_vars

(***************************************************************************)
(* The chat: one handler call per inbound message.                         *)
(***************************************************************************)
\* the message handler after handleUserMessage: its response is sent; what
\* it threw is answered with the apology
afterHandler(threw) == IF threw THEN "apologize" ELSE "respond"

\* the message handler with no catch around the send of the response
afterRespondAlways(ok) == "apologize"

\* the message handler after sendMessage(response): sendMessage rethrows
\* what the transport refused, and the catch block sends the apology
afterRespond(ok) == IF ok THEN "done" ELSE "apologize"

\* the message handler after sendMessage(apology): what is thrown here is
\* caught and logged by the 'message' listener
afterApologize(ok) == "done"

\* the 'message' event: status and group messages are skipped, every other
\* message is handed to the handler
MessageArrives(chatId, group) ==
  /\ status = "serving"
  /\ Cardinality(DOMAIN inbox) < MaxCmds
  /\ inbox' = MapSet(inbox, Cardinality(DOMAIN inbox) + 1,
                     [chatId |-> chatId, group |-> group,
                      pc |-> IF group THEN "done" ELSE "handling",
                      delivered |-> 0, refused |-> {}])
  /\ UNCHANGED << now, schedVars, tickVars, alertVars, confVars, cmdVars,
                  status >>

\* handleUserMessage returns a response or throws
HandlerDone(id, threw) ==
  /\ id \in DOMAIN inbox
  /\ inbox[id].pc = "handling"
  /\ inbox' = [inbox EXCEPT ![id].pc = afterHandler(threw)]
  /\ UNCHANGED << now, schedVars, tickVars, alertVars, confVars, cmdVars,
                  status >>

\* the transport answers sendMessage(message.from, response)
RespondDone(id, ok) ==
  /\ id \in DOMAIN inbox
  /\ inbox[id].pc = "respond"
  /\ inbox' = [inbox EXCEPT
       ![id].pc = afterRespond(ok),
       ![id].delivered = IF ok THEN @ + 1 ELSE @,
       ![id].refused = IF ok THEN @ ELSE @ \cup {"response"}]
  /\ UNCHANGED << now, schedVars, tickVars, alertVars, confVars, cmdVars,
                  status >>

\* the transport answers sendMessage(message.from, apology)
ApologizeDone(id, ok) ==
  /\ id \in DOMAIN inbox
  /\ inbox[id].pc = "apologize"
  /\ inbox' = [inbox EXCEPT
       ![id].pc = afterApologize(ok),
       ![id].delivered = IF ok THEN @ + 1 ELSE @,
       ![id].refused = IF ok THEN @ ELSE @ \cup {"apology"}]
  /\ UNCHANGED << now, schedVars, tickVars, alertVars, confVars, cmdVars,
                  status >>

NextChat ==
  \/ \E c \in Chats, group \in BOOLEAN : MessageArrives(c, group)
  \/ \E id \in DOMAIN inbox, threw \in BOOLEAN : HandlerDone(id, threw)
  \/ \E id \in DOMAIN inbox, ok \in BOOLEAN : RespondDone(id, ok)
  \/ \E id \in DOMAIN inbox, ok \in BOOLEAN : ApologizeDone(id, ok)

SpecChat == Init /\ [][NextChat]_vars

(***************************************************************************)
(* handleMonitorCommand, argument by argument.                             *)
(***************************************************************************)
\* what is typed as the trigger time, character by character
TypedTimes ==
  { <<"0", "9", ":", "0", "0">>, <<"0", "9", "0", "0">>, <<"9", "h">> }

\* text.split(' ').slice(1) of the /monitor messages that are typed
TypedParts ==
  { <<r, s, w, t>> : r \in {<<"001">>, <<"999">>}, s \in TypedStops,
                     w \in Ways, t \in TypedTimes }
  \cup { <<r, s, w>> : r \in {<<"001">>}, s \in {<<"terminal">>},
                       w \in {"ida"} }

\* String.prototype.split(sep)
RECURSIVE Split(_, _)
Split(s, sep) ==
  IF \A i \in DOMAIN s : s[i] # sep THEN << s >>
  ELSE LET i == CHOOSE i \in DOMAIN s :
                  s[i] = sep /\ \A j \in 1..(i - 1) : s[j] # sep
       IN << SubSeq(s, 1, i - 1) >> \o Split(SubSeq(s, i + 1, Len(s)), sep)

\* handleMonitorCommand: the checks before the config object is built, in
\* the order of the code; the answer is the check that rejected
monitorValidation(parts) ==
  IF Len(parts) < 4 THEN "usage"
  ELSE IF findRoute(parts[1]) = None THEN "route"
  ELSE IF parts[3] \notin {"ida", "volta"} THEN "way"
  ELSE IF Len(Split(parts[4], ":")) < 1 THEN "time"
  ELSE IF findStop(parts[2], findRoute(parts[1]).id) = None THEN "stop"
  ELSE "accepted"

\* handleMonitorCommand that saved the configuration before it validated
MonitorRefusedAfterSave(chatId, parts) ==
  /\ cmdCount < MaxCmds
  /\ monitorValidation(parts) # "accepted"
  /\ cmdCount' = cmdCount + 1
  /\ configurations' =
       MapSet(configurations, generateConfigKey(chatId, parts[1]),
              [chatId |-> chatId, isActive |-> TRUE, createdAt |-> now,
               lastUpdated |-> now])
  /\ reply' = Reply("monitor", chatId, parts, monitorValidation(parts))
  /\ UNCHANGED << now, schedVars, tickVars, alertVars, configFile, cmds,
                  procVars >>

\* handleMonitorCommand that returns a rejection
MonitorRefused(chatId, parts) ==
  /\ cmdCount < MaxCmds
  /\ monitorValidation(parts) # "accepted"
  /\ cmdCount' = cmdCount + 1
  /\ reply' = Reply("monitor", chatId, parts, monitorValidation(parts))
  /\ UNCHANGED << now, schedVars, tickVars, alertVars, confVars, cmds,
                  procVars >>

\* handleMonitorCommand
MonitorCommand(chatId, parts) ==
  \/ MonitorRefused(chatId, parts)
  \/ /\ monitorValidation(parts) = "accepted"
     /\ MonitorBegin(chatId, parts[1], parts[2], parts[3])

NextMonitor ==
  \/ \E c \in Chats, parts \in TypedParts : MonitorCommand(c, parts)
  \/ \E cmd \in cmds, ok \in BOOLEAN : MonitorResume(cmd, ok)
  \/ Clock({StartTime + 120})

SpecMonitor == Init /\ [][NextMonitor]_vars

(***************************************************************************)
(* ConfigManager, called operation by operation.                           *)
(***************************************************************************)
\* saveConfigurations: the document after the call; a failed write is caught
\* and logged
saveConfigurations(file, confs, writeOk) ==
  IF writeOk THEN SerializeConfigurations(confs) ELSE file

\* saveConfiguration: the value it returns
saveConfigurationResult(writeOk) == TRUE

\* deleteConfiguration, up to the file write
deleteConfiguration(confs, chatId, routeNumber) ==
  MapDelete(confs, generateConfigKey(chatId, routeNumber))

\* { ...config, ...updates }
Spread(config, updates) ==
  [f \in DOMAIN config \cup DOMAIN updates |->
     IF f \in DOMAIN updates THEN updates[f] ELSE config[f]]

\* updateConfiguration, up to the file write
updateConfiguration(confs, chatId, routeNumber, updates, t) ==
  LET key == generateConfigKey(chatId, routeNumber)
  IN IF key \in DOMAIN confs
     THEN MapSet(confs, key,
                 [Spread(confs[key], updates) EXCEPT !.lastUpdated = t])
     ELSE confs

\* the configs that are saved: built as handleMonitorCommand builds them,
\* createdAt read before the call
SavedConfigs(chatId) ==
  { NewConfig(chatId, route, StopTable[1], way, t) :
      route \in {RouteTable[1], RouteTable[2]}, way \in {"ida", "volta"},
      t \in {StartTime, now} }

\* the updates that are applied
Updates == { [proximityThreshold |-> 300], [isActive |-> TRUE] }

\* await saveConfiguration(chatId, routeNumber, config)
StoreSave(chatId, routeNumber, config, writeOk) ==
  /\ cmdCount < MaxCmds
  /\ cmdCount' = cmdCount + 1
  /\ configurations' = saveConfiguration(configurations, chatId, routeNumber,
                                         config, now)
  /\ configFile' = saveConfigurations(configFile, configurations', writeOk)
  /\ reply' = Reply("save", chatId, routeNumber,
                    saveConfigurationResult(writeOk))
  /\ UNCHANGED << now, schedVars, tickVars, alertVars, cmds, procVars >>

\* await deactivateConfiguration(chatId, routeNumber)
StoreDeactivate(chatId, routeNumber, writeOk) ==
  /\ cmdCount < MaxCmds
  /\ cmdCount' = cmdCount + 1
  /\ configurations' = deactivateConfiguration(configurations, chatId,
                                               routeNumber, now)
  /\ configFile' =
       IF generateConfigKey(chatId, routeNumber) \in DOMAIN configurations
       THEN saveConfigurations(configFile, configurations', writeOk)
       ELSE configFile
  /\ reply' = Reply("deactivate", chatId, routeNumber,
                    generateConfigKey(chatId, routeNumber)
                      \in DOMAIN configurations)
  /\ UNCHANGED << now, schedVars, tickVars, alertVars, cmds, procVars >>

\* await deleteConfiguration(chatId, routeNumber)
StoreDelete(chatId, routeNumber, writeOk) ==
  /\ cmdCount < MaxCmds
  /\ cmdCount' = cmdCount + 1
  /\ configurations' = deleteConfiguration(configurations, chatId,
                                           routeNumber)
  /\ configFile' =
       IF generateConfigKey(chatId, routeNumber) \in DOMAIN configurations
       THEN saveConfigurations(configFile, configurations', writeOk)
       ELSE configFile
  /\ reply' = Reply("delete", chatId, routeNumber,
                    generateConfigKey(chatId, routeNumber)
                      \in DOMAIN configurations)
  /\ UNCHANGED << now, schedVars, tickVars, alertVars, cmds, procVars >>

\* await updateConfiguration(chatId, routeNumber, updates); the result is
\* whether a config, not null, is returned
StoreUpdate(chatId, routeNumber, updates, writeOk) ==
  /\ cmdCount < MaxCmds
  /\ cmdCount' = cmdCount + 1
  /\ configurations' = updateConfiguration(configurations, chatId,
                                           routeNumber, updates, now)
  /\ configFile' =
       IF generateConfigKey(chatId, routeNumber) \in DOMAIN configurations
       THEN saveConfigurations(configFile, configurations', writeOk)
       ELSE configFile
  /\ reply' = Reply("update", chatId, routeNumber,
                    generateConfigKey(chatId, routeNumber)
                      \in DOMAIN configurations)
  /\ UNCHANGED << now, schedVars, tickVars, alertVars, cmds, procVars >>

StoreRoutes == {<<"001">>, <<"002">>}

NextStore ==
  \/ \E c \in Chats, r \in StoreRoutes, writeOk \in BOOLEAN :
       \E config \in SavedConfigs(c) : StoreSave(c, r, config, writeOk)
  \/ \E c \in Chats, r \in StoreRoutes, writeOk \in BOOLEAN :
       StoreDeactivate(c, r, writeOk)
  \/ \E c \in Chats, r \in StoreRoutes, writeOk \in BOOLEAN :
       StoreDelete(c, r, writeOk)
  \/ \E c \in Chats, r \in StoreRoutes, writeOk \in BOOLEAN :
       \E updates \in Updates : StoreUpdate(c, r, updates, writeOk)
  \/ Clock({StartTime + 120})

SpecStore == Init /\ [][NextStore]_vars

(***************************************************************************)
(* EMTUService over the provider's HTTP interface: each operation with a   *)
(* request that is answered or fails.                                      *)
(***************************************************************************)
Returned(v) == [kind |-> "returns", value |-> v]
Thrown == [kind |-> "throws", value |-> None]

\* findRoute: null when the request fails
findRouteRequest(routeNumber, requestOk) ==
  Returned(IF requestOk THEN findRoute(routeNumber) ELSE None)

\* getVehiclePositions: [] when the request fails
getVehiclePositions(routeNumber, vehicles, requestOk) ==
  Returned(IF requestOk THEN vehicles ELSE << >>)

\* findStop: null when the request fails
findStopRequest(stopName, routeId, requestOk) ==
  Returned(IF requestOk THEN findStop(stopName, routeId) ELSE None)

\* getStopLocation: throws when the stop is not found, and its catch logs
\* and throws again whatever was thrown in the try
getStopLocation(stopId, requestOk) ==
  IF requestOk /\ \E i \in DOMAIN StopTable : StopTable[i].id = stopId
  THEN Returned(StopTable[CHOOSE i \in DOMAIN StopTable :
                             StopTable[i].id = stopId])
  ELSE Thrown

\* searchRoutes: [] when the request fails
searchRoutes(searchTerm, requestOk) ==
  Returned(IF requestOk
           THEN SelectSeq(RouteTable,
                          LAMBDA r : \/ ToLower(searchTerm) = ToLower(r.number)
                                     \/ ToLower(searchTerm) \in r.name)
           ELSE << >>)

\* searchStops: [] when the request fails
searchStops(searchTerm, requestOk) ==
  Returned(IF requestOk
           THEN SelectSeq(StopTable,
                          LAMBDA p : ToLower(searchTerm) \in p.name)
           ELSE << >>)

Operations ==
  {"findRoute", "getVehiclePositions", "findStop", "getStopLocation",
   "searchRoutes", "searchStops"}

\* what is asked for: route numbers, stop names and terms, stop ids
Asked == TypedRoutes \cup TypedStops \cup {<<"stop", "001">>, <<"stop", "9">>}

\* one awaited call of an operation
Call(op, arg, requestOk) ==
  CASE op = "findRoute" -> findRouteRequest(arg, requestOk)
    [] op = "getVehiclePositions" ->
         getVehiclePositions(arg, <<[id |-> <<"v1">>, distance |-> 300]>>,
                             requestOk)
    [] op = "findStop" -> findStopRequest(arg, <<"001">>, requestOk)
    [] op = "getStopLocation" -> getStopLocation(arg, requestOk)
    [] op = "searchRoutes" -> searchRoutes(arg, requestOk)
    [] op = "searchStops" -> searchStops(arg, requestOk)

ProviderCall(op, arg, requestOk) ==
  /\ cmdCount < MaxCmds
  /\ cmdCount' = cmdCount + 1
  /\ reply' = [op |-> op, chatId |-> << >>, arg |-> arg,
               result |-> Call(op, arg, requestOk), requestOk |-> requestOk]
  /\ UNCHANGED << now, schedVars, tickVars, alertVars, confVars, cmds,
                  procVars >>

NextProvider ==
  \E op \in Operations, arg \in Asked, requestOk \in BOOLEAN :
    ProviderCall(op, arg, requestOk)

SpecProvider == Init /\ [][NextProvider]_vars

(***************************************************************************)
(* ConfigManager queried by chats whose ids contain the key separator.     *)
(***************************************************************************)
\* chat ids as the tests write them: 'test_chat' style ids, one of which is
\* another followed by '_' and more
SeparatorChats == { <<"c1">>, <<"c1", "x">> }

\* await getActiveConfigurations(chatId)
StoreGetActive(chatId) ==
  /\ cmdCount < MaxCmds
  /\ cmdCount' = cmdCount + 1
  /\ reply' = Reply("getActive", chatId, << >>,
                    getActiveConfigurations(configurations, chatId))
  /\ UNCHANGED << now, schedVars, tickVars, alertVars, confVars, cmds,
                  procVars >>

NextActive ==
  \/ \E c \in SeparatorChats, r \in StoreRoutes :
       \E config \in SavedConfigs(c) : StoreSave(c, r, config, TRUE)
  \/ \E c \in SeparatorChats, r \in StoreRoutes : StoreDeactivate(c, r, TRUE)
  \/ \E c \in SeparatorChats : StoreGetActive(c)
  \/ Clock({StartTime + 120})

SpecActive == Init /\ [][NextActive]_vars

(***************************************************************************)
(* AlertManager, called operation by operation.                            *)
(***************************************************************************)
\* weekAgo: local midnight seven days before t
WeekAgo(t) == Midnight(t) - 7 * DayLength

\* alerts.filter(alert => new Date(alert.timestamp) >= since).length
CountSince(list, since) ==
  Len(SelectSeq(list, LAMBDA alert : alert.timestamp >= since))

\* the counts getAlertStatistics takes of one history
RouteCounts(list, t) ==
  [total |-> Len(list), today |-> CountSince(list, Midnight(t)),
   thisWeek |-> CountSince(list, WeekAgo(t))]

\* the sum of f over the keys S
RECURSIVE SumOver(_, _)
SumOver(S, f) ==
  IF S = {} THEN 0
  ELSE LET k == CHOOSE k \in S : TRUE IN f[k] + SumOver(S \ {k}, f)

\* key.split('_')[1]
RouteIdFromKey(key) == << key[2] >>

\* getAlertStatistics; routeId is the empty string when the
\* argument is left out or null (if (routeId) is false).
\* byRoute is assigned under key.split('_')[1], so that keys with the same
\* second segment share one entry: the entry of the key visited last (the
\* map's insertion order, which is not kept here: one of them is taken)
getAlertStatistics(hist, t, chatId, routeId) ==
  IF routeId # << >>
  THEN LET c == RouteCounts(History(hist,
                              generateChatRouteKey(chatId, routeId)), t)
       IN [total |-> c.total, today |-> c.today, thisWeek |-> c.thisWeek,
           routeId |-> routeId]
  ELSE LET keys == {k \in DOMAIN hist : StartsWith(k, chatId)}
           counts == [k \in keys |-> RouteCounts(hist[k], t)]
       IN [total |-> SumOver(keys, [k \in keys |-> counts[k].total]),
           today |-> SumOver(keys, [k \in keys |-> counts[k].today]),
           thisWeek |-> SumOver(keys, [k \in keys |-> counts[k].thisWeek]),
           byRoute |-> [r \in {RouteIdFromKey(k) : k \in keys} |->
                          counts[CHOOSE k \in keys : RouteIdFromKey(k) = r]]]

\* the instants at which the statistics are asked for: the evening of the
\* first day, the next morning, nine days later
StatInstants == {StartTime + 1800, StartTime + 9 * DayLength}

\* await recordAlert(chatId, routeId, vehicleId, distance)
AlertRecord(chatId, routeId, vehicleId, distance, writeOk) ==
  /\ cmdCount < MaxCmds
  /\ cmdCount' = cmdCount + 1
  /\ sentAlerts' = recordMark(sentAlerts, now, chatId, routeId, vehicleId,
                              distance)
  /\ alerts' = recordHistory(alerts, now, chatId, routeId, vehicleId,
                             distance)
  /\ alertsFile' = IF writeOk THEN SerializeAlerts(alerts', sentAlerts')
                   ELSE alertsFile
  /\ reply' = Reply("record", chatId, routeId, None)
  /\ UNCHANGED << now, schedVars, tickVars, sent, confVars, cmds, procVars >>

\* await getAlertStatistics(chatId, routeId)
AlertStatistics(chatId, routeId) ==
  /\ cmdCount < MaxCmds
  /\ cmdCount' = cmdCount + 1
  /\ reply' = Reply("statistics", chatId, routeId,
                    getAlertStatistics(alerts, now, chatId, routeId))
  /\ UNCHANGED << now, schedVars, tickVars, alertVars, confVars, cmds,
                  procVars >>

NextStats ==
  \/ \E c \in SeparatorChats, r \in StoreRoutes, writeOk \in BOOLEAN :
       AlertRecord(c, r, <<"v1">>, 300, writeOk)
  \/ \E c \in SeparatorChats, r \in StoreRoutes \cup {<< >>} :
       AlertStatistics(c, r)
  \/ Clock(StatInstants)

SpecStats == Init /\ [][NextStats]_vars

\* identifiers whose '_'-separated segments overlap, as the tests' chat
\* 'test_chat_001' and vehicle 'vehicle_001' do
KeyChats == { <<"c1">>, <<"c1", "001">> }
KeyVehicles == { <<"v1">>, <<"001", "v1">> }
KeyTriples == KeyChats \X { <<"001">> } \X KeyVehicles

\* direct callers of recordAlert over these identifiers
NextKeys ==
  \/ \E k \in KeyTriples : AlertRecord(k[1], k[2], k[3], 300, TRUE)
  \/ Clock({StartTime + 120, StartTime + 240, StartTime + 360})

SpecKeys == Init /\ [][NextKeys]_vars

\* deleteAllConfigurations, up to the file write
deleteAllConfigurations(confs, chatId) ==
  [k \in {x \in DOMAIN confs : ~StartsWith(x, chatId)} |-> confs[k]]

\* await deleteAllConfigurations(chatId); the result is the count deleted
StoreDeleteAll(chatId, writeOk) ==
  /\ cmdCount < MaxCmds
  /\ cmdCount' = cmdCount + 1
  /\ configurations' = deleteAllConfigurations(configurations, chatId)
  /\ configFile' =
       IF configurations' # configurations
       THEN saveConfigurations(configFile, configurations', writeOk)
       ELSE configFile
  /\ reply' = Reply("deleteAll", chatId, << >>,
                    Cardinality(DOMAIN configurations)
                      - Cardinality(DOMAIN configurations'))
  /\ UNCHANGED << now, schedVars, tickVars, alertVars, cmds, procVars >>

\* two chats whose identifiers share a first segment monitor routes, stop
\* all their monitors and delete all their configurations
NextStopAll ==
  \/ \E c \in SeparatorChats, r \in {<<"001">>, <<"002">>} :
       MonitorBegin(c, r, <<"terminal">>, "ida")
  \/ \E cmd \in cmds : MonitorResume(cmd, TRUE)
  \/ \E c \in SeparatorChats : StopAllBegin(c)
  \/ \E cmd \in cmds, ok \in BOOLEAN : StopResume(cmd, ok)
  \/ \E c \in SeparatorChats, writeOk \in BOOLEAN : StoreDeleteAll(c, writeOk)
  \/ Clock({StartTime + 120})

SpecStopAll == Init /\ [][NextStopAll]_vars

\* how many recordAlert calls one run makes
MaxRecords == 103

\* the distance of the next record of a history: one more than its last, so
\* that every record of a history is told apart
Numbered(hist, key) ==
  IF History(hist, key) = << >> THEN 1
  ELSE History(hist, key)[Len(History(hist, key))].distance + 1

\* await recordAlert(chatId, routeId, vehicleId, distance), its write
\* succeeding
RecordNumbered(chatId, routeId, vehicleId) ==
  /\ cmdCount < MaxRecords
  /\ cmdCount' = cmdCount + 1
  /\ LET distance == Numbered(alerts, generateChatRouteKey(chatId, routeId))
     IN /\ sentAlerts' = recordMark(sentAlerts, now, chatId, routeId,
                                    vehicleId, distance)
        /\ alerts' = recordHistory(alerts, now, chatId, routeId, vehicleId,
                                   distance)
  /\ alertsFile' = SerializeAlerts(alerts', sentAlerts')
  /\ reply' = Reply("record", chatId, routeId, None)
  /\ UNCHANGED << now, schedVars, tickVars, sent, confVars, cmds, procVars >>

\* one chat records alerts of two routes, more than the history keeps
NextRecords ==
  \E r \in {<<"001">>, <<"002">>} : RecordNumbered(<<"c1">>, r, <<"v1">>)

SpecRecords == Init /\ [][NextRecords]_vars

\* the days of the months of a common year; the clock starts in January
MonthLengths == <<31, 28, 31, 30, 31, 30, 31, 31, 30, 31, 30, 31>>

RECURSIVE MonthStart(_)
\* the day of the year, counted from 0, on which month m begins
MonthStart(m) == IF m = 1 THEN 0 ELSE MonthStart(m - 1) + MonthLengths[m - 1]

\* Date.getMonth() + 1
getMonth(t) ==
  CHOOSE m \in 1..12 :
    /\ MonthStart(m) <= (t \div DayLength) % 365
    /\ (t \div DayLength) % 365 < MonthStart(m) + MonthLengths[m]

\* a sweep that looks one year back
oneYearAgo(t) == t - (365 * DayLength)

\* a sweep that looks no time back
oneMomentAgo(t) == t

\* oneMonthAgo.setMonth(oneMonthAgo.getMonth() - 1): the same day and time of
\* the month before, a day past that month's end running over into the
\* following days; either way as many days back as the month before has
oneMonthAgo(t) ==
  t - (MonthLengths[IF getMonth(t) = 1 THEN 12 ELSE getMonth(t) - 1]
         * DayLength)

\* cleanupOldAlerts: the histories afterwards
cleanupAlerts(hist, t) ==
  LET filtered(k) == SelectSeq(hist[k],
                       LAMBDA alert : alert.timestamp > oneMonthAgo(t))
  IN [k \in {x \in DOMAIN hist : filtered(x) # << >>} |-> filtered(k)]

\* cleanupOldAlerts: the marks afterwards
cleanupSentAlerts(marks, t) ==
  [k \in {x \in DOMAIN marks : ~(marks[x].lastSent < oneMonthAgo(t))} |->
     marks[k]]

\* cleanupOldAlerts: its count of what it removed
cleaned(hist, marks, t) ==
  SumOver(DOMAIN hist,
          [k \in DOMAIN hist |->
             Len(hist[k]) - Len(History(cleanupAlerts(hist, t), k))])
    + Cardinality(DOMAIN marks \ DOMAIN cleanupSentAlerts(marks, t))

\* how many store operations a run with sweeps makes
MaxSwept == 4

\* the hourly callback: cleanupOldAlerts and the saveAlerts it starts
cleanupOldAlerts(writeOk) ==
  /\ cmdCount < MaxSwept
  /\ cmdCount' = cmdCount + 1
  /\ alerts' = cleanupAlerts(alerts, now)
  /\ sentAlerts' = cleanupSentAlerts(sentAlerts, now)
  /\ alertsFile' = IF cleaned(alerts, sentAlerts, now) > 0 /\ writeOk
                   THEN SerializeAlerts(alerts', sentAlerts')
                   ELSE alertsFile
  /\ reply' = Reply("cleanup", << >>, << >>,
                    cleaned(alerts, sentAlerts, now))
  /\ UNCHANGED << now, schedVars, tickVars, sent, confVars, cmds, procVars >>

\* instants of January, February and March around the month's ends
SweepInstants ==
  { StartTime + 120,
    (31 * DayLength) + 43200,
    (32 * DayLength) + 43200,
    61 * DayLength,
    63 * DayLength }

\* alerts recorded over two months, and sweeps between them
NextSweep ==
  \/ \E v \in Vehicles : AlertRecord(<<"c1">>, <<"001">>, v, 300, TRUE)
  \/ \E writeOk \in BOOLEAN : cleanupOldAlerts(writeOk)
  \/ Clock(SweepInstants)

SpecSweep == Init /\ [][NextSweep]_vars

\* the state in which chat c1 monitors route 001 since 20 seconds before
\* StartTime (timer 1) and route 002 since StartTime (timer 2)
InitTwoKeys ==
  LET stop == findStop(<<"terminal">>, <<"001">>)
      config1 == NewConfig(<<"c1">>, findRoute(<<"001">>), stop, "ida",
                           StartTime - 20)
      config2 == NewConfig(<<"c1">>, findRoute(<<"002">>), stop, "ida",
                           StartTime)
      confs == saveConfiguration(
                 saveConfiguration(<< >>, <<"c1">>, <<"001">>, config1,
                                   StartTime - 20),
                 <<"c1">>, <<"002">>, config2, StartTime)
      intervals == startMonitoringMap(<< >>, config1, 1)
      tm == startMonitoringTimers(<< >>, << >>, config1, 1, StartTime - 20)
  IN /\ now = StartTime
     /\ configurations = confs
     /\ configFile = SerializeConfigurations(confs)
     /\ monitoringIntervals = startMonitoringMap(intervals, config2, 2)
     /\ timers = startMonitoringTimers(tm, intervals, config2, 2, StartTime)
     /\ nextTimer = 3
     /\ ticks = {}
     /\ tickCount = 0
     /\ alerts = << >>
     /\ sentAlerts = << >>
     /\ alertsFile = SerializeAlerts(<< >>, << >>)
     /\ sent = << >>
     /\ cmds = {}
     /\ cmdCount = 2
     /\ reply = Reply("monitor", <<"c1">>, <<"002">>, "started")
     /\ inbox = << >>
     /\ status = "serving"

\* what the provider answers in the runs of two keys
TwoKeyFeeds == {<< >>, <<[id |-> <<"v1">>, distance |-> 300]>>}

\* the steps of the ticks of one timer, each await answering
TickSteps(id) ==
  \E tick \in ticks :
    /\ tick.timer = id
    /\ \/ \E feed \in TwoKeyFeeds : FetchDone(tick, feed)
       \/ \E ok \in BOOLEAN : SendDone(tick, ok)
       \/ \E ok \in BOOLEAN : SaveDone(tick, ok)

\* the two polling tasks over the first 100 seconds
NextTwoKeys ==
  \/ \E id \in DOMAIN timers : TimerFire(id)
  \/ \E id \in DOMAIN timers : TickSteps(id)
  \/ Clock({StartTime + 40, StartTime + 60, StartTime + 100})

\* the event loop runs the callback of timer 1 once it is due, and the
\* provider and the transport answer the ticks of timer 1; the awaits of the
\* ticks of timer 2 may never answer
SpecTwoKeys ==
  /\ InitTwoKeys
  /\ [][NextTwoKeys]_vars
  /\ WF_vars(TimerFire(1))
  /\ WF_vars(TickSteps(1))

\* MessageHandler.handleMonitorCommand after the file write: the class has
\* no startMonitoring, the call throws a TypeError and the catch block
\* answers with the error message
MonitorResumeMissing(cmd, ok) ==
  /\ cmd \in cmds
  /\ cmd.op = "monitor"
  /\ configFile' = IF ok THEN cmd.data ELSE configFile
  /\ cmds' = cmds \ {cmd}
  /\ reply' = Reply("monitor", cmd.chatId, cmd.arg, "error")
  /\ UNCHANGED procVars
  /\ UNCHANGED << now, schedVars, tickVars, alertVars, configurations,
                  cmdCount >>

\* the /monitor commands of two chats as MessageHandler handles them
NextHandler ==
  \/ \E c \in Chats, r \in TypedRoutes, st \in TypedStops, w \in Ways :
       MonitorRejected(c, r, st, w)
  \/ \E c \in Chats, r \in TypedRoutes, st \in TypedStops, w \in Ways :
       MonitorBegin(c, r, st, w)
  \/ \E cmd \in cmds, ok \in BOOLEAN : MonitorResumeMissing(cmd, ok)
  \/ Clock({StartTime + 120})

SpecHandler == Init /\ [][NextHandler]_vars

\* loadConfigurations on a map that may hold entries: every entry of the
\* document is set, the other keys stay
loadConfigurationsInto(confs, doc) ==
  [k \in DOMAIN confs \cup DOMAIN doc |->
     IF k \in DOMAIN doc THEN ParseConfigurations(doc)[k] ELSE confs[k]]

\* loadAlerts on maps that may hold entries: the histories
loadAlertsInto(hist, doc) ==
  [k \in DOMAIN hist \cup DOMAIN doc.alerts |->
     IF k \in DOMAIN doc.alerts THEN ParseAlertHistory(doc)[k] ELSE hist[k]]

\* loadAlerts on maps that may hold entries: the marks
loadSentAlertsInto(marks, doc) ==
  [k \in DOMAIN marks \cup DOMAIN doc.sentAlerts |->
     IF k \in DOMAIN doc.sentAlerts THEN ParseSentAlerts(doc)[k]
     ELSE marks[k]]

\* a load up to the answer of fs.readJson: the document is the file's content
\* at the read; store is "configurations" or "alerts"
LoadBegin(store) ==
  /\ cmdCount < MaxCmds
  /\ cmdCount' = cmdCount + 1
  /\ cmds' = cmds \cup
       {[id |-> cmdCount + 1, op |-> "load", chatId |-> << >>,
         arg |-> <<store>>, config |-> None,
         data |-> IF store = "configurations" THEN configFile
                  ELSE alertsFile,
         ret |-> "loaded"]}
  /\ UNCHANGED << now, schedVars, tickVars, alertVars, confVars, reply,
                  procVars >>

\* the load after fs.readJson: the entries of the document are set
LoadDone(cmd) ==
  /\ cmd \in cmds
  /\ cmd.op = "load"
  /\ IF cmd.arg = <<"configurations">>
     THEN /\ configurations' = loadConfigurationsInto(configurations,
                                                      cmd.data)
          /\ UNCHANGED << alerts, sentAlerts >>
     ELSE /\ alerts' = loadAlertsInto(alerts, cmd.data)
          /\ sentAlerts' = loadSentAlertsInto(sentAlerts, cmd.data)
          /\ UNCHANGED configurations
  /\ cmds' = cmds \ {cmd}
  /\ reply' = Reply("load", << >>, cmd.arg, cmd.ret)
  /\ UNCHANGED << now, schedVars, tickVars, alertsFile, configFile,
                  cmdCount, procVars >>

\* a process just constructed over the files of an earlier run: route 001 of
\* chat c1 monitored, one alert for vehicle v1 recorded an hour ago
InitLoad ==
  LET config == NewConfig(<<"c1">>, RouteTable[1], StopTable[1], "ida",
                          StartTime - 3600)
      confs == saveConfiguration(<< >>, <<"c1">>, <<"001">>, config,
                                 StartTime - 3600)
  IN /\ now = StartTime
     /\ configurations = << >>
     /\ configFile = SerializeConfigurations(confs)
     /\ monitoringIntervals = << >>
     /\ timers = << >>
     /\ nextTimer = 1
     /\ ticks = {}
     /\ tickCount = 0
     /\ alerts = << >>
     /\ sentAlerts = << >>
     /\ alertsFile =
          SerializeAlerts(
            recordHistory(<< >>, StartTime - 3600, <<"c1">>, <<"001">>,
                          <<"v1">>, 300),
            recordMark(<< >>, StartTime - 3600, <<"c1">>, <<"001">>,
                       <<"v1">>, 300))
     /\ sent = << >>
     /\ cmds = {}
     /\ cmdCount = 0
     /\ reply = None
     /\ inbox = << >>
     /\ status = "serving"

\* the loads of the constructors and of initialize, and the store
\* operations of callers that do not wait for them, every write succeeding
NextLoad ==
  \/ \E store \in {"configurations", "alerts"} : LoadBegin(store)
  \/ \E cmd \in cmds : LoadDone(cmd)
  \/ \E r \in {<<"001">>, <<"002">>}, config \in SavedConfigs(<<"c1">>) :
       StoreSave(<<"c1">>, r, config, TRUE)
  \/ \E v \in Vehicles : AlertRecord(<<"c1">>, <<"001">>, v, 300, TRUE)
  \/ Clock({StartTime + 120})

SpecLoad == InitLoad /\ [][NextLoad]_vars

\* shutdown() up to its await of whatsapp.destroy(): every interval of
\* monitoringIntervals is cleared and the map is emptied
ShutdownBegin ==
  /\ status = "serving"
  /\ status' = "stopping"
  /\ timers' = ClearIntervals(timers, Range(monitoringIntervals))
  /\ monitoringIntervals' = << >>
  /\ UNCHANGED << now, nextTimer, tickVars, alertVars, confVars, cmdVars,
                  inbox >>

\* whatsapp.destroy() has answered and the signal handler calls
\* process.exit(0): what the process held in memory is gone
ShutdownExit ==
  /\ status = "stopping"
  /\ status' = "down"
  /\ configurations' = << >>
  /\ monitoringIntervals' = << >>
  /\ timers' = << >>
  /\ nextTimer' = 1
  /\ ticks' = {}
  /\ alerts' = << >>
  /\ sentAlerts' = << >>
  /\ cmds' = {}
  /\ UNCHANGED << now, configFile, alertsFile, tickCount, sent, cmdCount,
                  reply, inbox >>

\* one chat's /monitor commands and the ticks of its monitors around a
\* shutdown; commands arrive while the process serves, and those in flight
\* go on while shutdown awaits
NextShutdown ==
  \/ /\ status = "serving"
     /\ \E r \in {<<"001">>, <<"002">>} :
          MonitorBegin(<<"c1">>, r, <<"terminal">>, "ida")
  \/ /\ status # "down"
     /\ \E cmd \in cmds, ok \in BOOLEAN : MonitorResume(cmd, ok)
  \/ /\ status # "down"
     /\ Polling({<< >>, <<[id |-> <<"v1">>, distance |-> 300]>>})
  \/ Clock({StartTime + 120})
  \/ ShutdownBegin
  \/ ShutdownExit

SpecShutdown == Init /\ [][NextShutdown]_vars

(***************************************************************************)
(* calculateDistance.  Coordinates are in 1/10000 of a degree, angles in    *)
(* microradians, cosines in 1/10000, the haversine a in 10^-12; every       *)
(* product stays below 2^31.  The series are cut where the next term is    *)
(* below the unit for places less than 2.5 degrees apart.                  *)
(***************************************************************************)
EarthRadius == 6371000

\* x * Math.PI/180 (0.01745329), from 1/10000 degree to microradians
ToRadians(d) == d + ((d * 745) \div 1000) + ((d * 329) \div 1000000)

\* Math.sin of microradians, in millionths: x - x^3/6
Sin(x) == x - ((((x * x) \div 1000000) * x) \div 6000000)

\* Math.cos of microradians, in 1/10000: 1 - x^2/2 + x^4/24 - x^6/720
Cos(x) ==
  LET y == x \div 100
      y2 == (y * y) \div 10000
      y4 == (y2 * y2) \div 10000
      y6 == (y4 * y2) \div 10000
  IN 10000 - (y2 \div 2) + (y4 \div 24) - (y6 \div 720)

\* Math.sqrt(a) of a in 10^-12, in millionths
RECURSIVE SqrtBetween(_, _, _)
SqrtBetween(n, lo, hi) ==
  IF hi - lo <= 1 THEN lo
  ELSE LET mid == (lo + hi) \div 2
       IN IF mid * mid <= n THEN SqrtBetween(n, mid, hi)
          ELSE SqrtBetween(n, lo, mid)

Sqrt(a) == SqrtBetween(a, 0, 46340)

\* Math.sqrt(1 - a) of a in 10^-12, in millionths: 1 - a/2
SqrtOneMinus(a) == 1000000 - (a \div 2000000)

\* Math.atan2(y, x) of millionths with 0 <= y < x, in microradians:
\* t - t^3/3 of t = y/x
Atan2(y, x) ==
  LET t == y + ((y * (1000000 - x)) \div x)
  IN t - ((((t * t) \div 1000000) * t) \div 3000000)

\* calculateDistance with the longitudes left out of a
calculateDistanceMeridian(lat1, lon1, lat2, lon2) == ((EarthRadius \div 1000) * (2 * Atan2(Sqrt(Sin(ToRadians(lat2 - lat1) \div 2) * Sin(ToRadians(lat2 - lat1) \div 2)), 1000000))) \div 1000

\* calculateDistance: the haversine formula, in metres
calculateDistance(lat1, lon1, lat2, lon2) ==
  LET phi1 == ToRadians(lat1)
      phi2 == ToRadians(lat2)
      dphi == ToRadians(lat2 - lat1)
      dlambda == ToRadians(lon2 - lon1)
      s1 == Sin(dphi \div 2)
      s2 == Sin(dlambda \div 2)
      a == s1 * s1
           + (((Cos(phi1) * Cos(phi2)) \div 10000) * ((s2 * s2) \div 10000))
      c == 2 * Atan2(Sqrt(a), SqrtOneMinus(a))
  IN ((EarthRadius \div 1000) * c) \div 1000

\* São Paulo centre and Santos, the mock stops and the centres of the mock
\* vehicles
SaoPaulo == [lat |-> -235505, lon |-> -466333]
Santos == [lat |-> -239608, lon |-> -463331]
Places ==
  { SaoPaulo, Santos,
    [lat |-> -236094, lon |-> -464736], [lat |-> -235963, lon |-> -464026],
    [lat |-> -235489, lon |-> -465692], [lat |-> -236000, lon |-> -464500],
    [lat |-> -235950, lon |-> -464450] }

\* checker.calculateDistance(p.lat, p.lon, q.lat, q.lon)
Measure(p, q) ==
  /\ cmdCount < MaxCmds
  /\ cmdCount' = cmdCount + 1
  /\ reply' = Reply("calculateDistance", << >>, << p, q >>,
                    calculateDistance(p.lat, p.lon, q.lat, q.lon))
  /\ UNCHANGED << now, schedVars, tickVars, alertVars, confVars, cmds,
                  procVars >>

NextDistance == \E p, q \in Places : Measure(p, q)

SpecDistance == Init /\ [][NextDistance]_vars

(***************************************************************************)
(* Logger.                                                                 *)
(***************************************************************************)
levels == [error |-> 0, warn |-> 1, info |-> 2, debug |-> 3]

\* the values of LOG_LEVEL; "" is the variable left unset
LogLevels == {"error", "warn", "info", "debug", "", "verbose", "INFO"}

\* the levels messages are logged at
MessageLevels == {"error", "warn", "info", "debug", "trace"}

\* the constructor: this.levels[this.logLevel] || this.levels.info, of
\* process.env.LOG_LEVEL || 'info'; 0 and undefined are both falsy
currentLevel(logLevel) ==
  IF logLevel \in DOMAIN levels /\ levels[logLevel] # 0
  THEN levels[logLevel]
  ELSE levels.info

\* shouldLog: undefined <= n is false
shouldLog(level, current) ==
  level \in DOMAIN levels /\ levels[level] <= current

\* new Logger() under LOG_LEVEL = logLevel, then shouldLog(level)
LoggerCheck(logLevel, level) ==
  /\ cmdCount < MaxCmds
  /\ cmdCount' = cmdCount + 1
  /\ reply' = Reply("shouldLog", << >>, << logLevel, level >>,
                    shouldLog(level, currentLevel(logLevel)))
  /\ UNCHANGED << now, schedVars, tickVars, alertVars, confVars, cmds,
                  procVars >>

NextLogger ==
  \E logLevel \in LogLevels, level \in MessageLevels :
    LoggerCheck(logLevel, level)

SpecLogger == Init /\ [][NextLogger]_vars

(***************************************************************************)
(* Claims.                                                                 *)
(***************************************************************************)
SameTriple(a, b) ==
  /\ a.chatId = b.chatId
  /\ a.routeId = b.routeId
  /\ a.vehicleId = b.vehicleId

\* C1: two proximity notifications for the same (chatId, routeId,
\* vehicleId) are never delivered less than the cooldown period apart.
C1_CooldownBetweenNotifications ==
  \A i, j \in DOMAIN sent :
    (i < j /\ SameTriple(sent[i], sent[j]))
      => sent[j].time - sent[i].time >= cooldownPeriod

\* the notifications of (chatId, routeId) delivered on the local day of t
SentOnDay(chatId, routeId, t) ==
  {i \in DOMAIN sent : /\ sent[i].chatId = chatId
                       /\ sent[i].routeId = routeId
                       /\ Midnight(sent[i].time) = Midnight(t)}

\* C2: the notifications delivered for one (chatId, routeId) within one
\* local day never outnumber the monitor's maxAlertsPerDay.
C2_DailyCap ==
  \A i \in DOMAIN sent :
    Cardinality(SentOnDay(sent[i].chatId, sent[i].routeId, sent[i].time))
      <= MaxAlerts

\* the monitors the program knows
Monitors == Range(configurations)

\* what the tick of monitor c is answered for vehicle v in this state
ShouldAlert(c, v) ==
  shouldSendAlert(sentAlerts, alerts, now, c.chatId, c.routeId, v,
                  c.maxAlerts)

HasMark(c, v) ==
  generateAlertKey(c.chatId, c.routeId, v) \in DOMAIN sentAlerts

\* the seconds since the last alert recorded for (c, v)
MarkAge(c, v) ==
  now - sentAlerts[generateAlertKey(c.chatId, c.routeId, v)].lastSent

\* the number of alerts recorded for monitor c on the local day that
\* starts at midnight
RecordedOn(c, midnight) ==
  LET h == History(alerts, generateChatRouteKey(c.chatId, c.routeId))
  IN Cardinality({i \in DOMAIN h : Midnight(h[i].timestamp) = midnight})

Today == Midnight(now)
Yesterday == Midnight(now) - DayLength

\* C3, as stated: right after an alert is recorded for a key the key is
\* refused, and it is accepted again once more than the cooldown period has
\* passed since the record.
C3_AcceptedAfterCooldown ==
  \A c \in Monitors, v \in Vehicles :
    HasMark(c, v) =>
      /\ MarkAge(c, v) = 0 => ~ShouldAlert(c, v)
      /\ MarkAge(c, v) > cooldownPeriod => ShouldAlert(c, v)

\* C3, amended: a recorded key is refused for as long as less than the
\* cooldown period has passed since the record; from then on it is accepted
\* provided today's alerts of its (chatId, routeId) are below maxAlerts.
C3_CooldownThenCap ==
  \A c \in Monitors, v \in Vehicles :
    HasMark(c, v) =>
      /\ MarkAge(c, v) < cooldownPeriod => ~ShouldAlert(c, v)
      /\ (MarkAge(c, v) >= cooldownPeriod /\ RecordedOn(c, Today) < c.maxAlerts)
           => ShouldAlert(c, v)

\* a recorded key whose cooldown has passed is accepted again
C3_Witness ==
  \E c \in Monitors, v \in Vehicles :
    /\ HasMark(c, v)
    /\ MarkAge(c, v) >= cooldownPeriod
    /\ ShouldAlert(c, v)

\* C4, as stated: once today's alerts of a (chatId, routeId) reach maxAlerts
\* every vehicle is refused, and after the next midnight every vehicle is
\* accepted again.
C4_AcceptedAfterMidnight ==
  \A c \in Monitors, v \in Vehicles :
    /\ RecordedOn(c, Today) >= c.maxAlerts => ~ShouldAlert(c, v)
    /\ (RecordedOn(c, Yesterday) >= c.maxAlerts /\ RecordedOn(c, Today) = 0)
         => ShouldAlert(c, v)

\* C4, amended: once today's alerts reach maxAlerts every vehicle is
\* refused; after the next midnight, while the new day's alerts are below
\* maxAlerts, every vehicle that is not within its own cooldown is accepted.
C4_CapThenMidnight ==
  \A c \in Monitors, v \in Vehicles :
    /\ RecordedOn(c, Today) >= c.maxAlerts => ~ShouldAlert(c, v)
    /\ (/\ RecordedOn(c, Yesterday) >= c.maxAlerts
        /\ RecordedOn(c, Today) < c.maxAlerts
        /\ HasMark(c, v) => MarkAge(c, v) >= cooldownPeriod)
         => ShouldAlert(c, v)

\* the day after the limit was reached a vehicle is accepted again
C4_Witness ==
  \E c \in Monitors, v \in Vehicles :
    /\ RecordedOn(c, Yesterday) >= c.maxAlerts
    /\ RecordedOn(c, Today) = 0
    /\ ShouldAlert(c, v)

\* C5, as stated: a key without a recorded alert is accepted.
C5_UnknownKeyAccepted ==
  \A c \in Monitors, v \in Vehicles : ~HasMark(c, v) => ShouldAlert(c, v)

\* C5, amended: a key without a recorded alert is accepted provided
\* today's alerts of its (chatId, routeId) are below maxAlerts.
C5_UnknownKeyBelowCap ==
  \A c \in Monitors, v \in Vehicles :
    (~HasMark(c, v) /\ RecordedOn(c, Today) < c.maxAlerts)
      => ShouldAlert(c, v)

\* a vehicle never alerted on a route that has alerted today is accepted
C5_Witness ==
  \E c \in Monitors, v \in Vehicles :
    /\ ~HasMark(c, v)
    /\ RecordedOn(c, Today) > 0
    /\ ShouldAlert(c, v)

\* the provider reports the single vehicle v at d metres from the stop
OneVehicle(v, d) == <<[id |-> v, distance |-> d]>>

\* the step leaves the tick about to notify the chat of vehicle v
Notifies(tick, v) ==
  \E u \in ticks' : /\ u.n = tick.n
                    /\ u.pc = "send"
                    /\ u.vehicles[u.i].id = v

\* the step ends the tick
Ends(tick) == \A u \in ticks' : u.n # tick.n

\* the steps of the scenario, for the tick of a monitor with threshold 500
\* that allows two alerts a day or more and for vehicle v
C6_Step(tick, v) ==
  LET c == tick.config
      h == History(alerts, generateChatRouteKey(c.chatId, c.routeId))
      h2 == History(alerts', generateChatRouteKey(c.chatId, c.routeId))
      fresh == sentAlerts = << >> /\ alerts = << >>
  IN /\ (fresh /\ FetchDone(tick, OneVehicle(v, 300))) => Notifies(tick, v)
     /\ (fresh /\ tick.vehicles = OneVehicle(v, 300) /\ SendDone(tick, TRUE))
          => /\ Len(sent') = Len(sent) + 1
             /\ Len(h2) = 1
             /\ h2[1].vehicleId = v
     /\ (/\ tick.vehicles = OneVehicle(v, 300)
         /\ \E ok \in BOOLEAN : SaveDone(tick, ok))
          => Ends(tick)
     /\ (/\ HasMark(c, v)
         /\ MarkAge(c, v) = 120
         /\ FetchDone(tick, OneVehicle(v, 280)))
          => Ends(tick) /\ sent' = sent /\ alerts' = alerts
     /\ (/\ HasMark(c, v)
         /\ MarkAge(c, v) = 660
         /\ Len(h) = 1
         /\ \E d \in {280, 300} : FetchDone(tick, OneVehicle(v, d)))
          => Notifies(tick, v)

\* C6: with threshold 500, the tick that finds one vehicle at 300 m and an
\* empty alert store sends one notification and records one alert; a tick
\* two minutes after that alert that finds the vehicle at 280 m sends
\* nothing; a tick eleven minutes after that alert sends the second
\* notification.
C6_Scenario ==
  [][\A tick \in ticks, v \in Vehicles :
       (tick.config.proximityThreshold = 500 /\ tick.config.maxAlerts >= 2)
         => C6_Step(tick, v)]_vars

\* three ticks have run to their end: the first notified at StartTime + 120,
\* the one two minutes later stayed silent, the one eleven minutes after the
\* first notified of the same vehicle again
C6_Witness ==
  /\ tickCount = 3
  /\ ticks = {}
  /\ now = StartTime + 780
  /\ Len(sent) = 2
  /\ SameTriple(sent[1], sent[2])
  /\ sent[1].time = StartTime + 120
  /\ sent[2].time = StartTime + 780
  /\ alerts[generateChatRouteKey(sent[1].chatId, sent[1].routeId)][1].distance
       = 300

\* C7: every live timer is the one registered under its key and every
\* registered timer is live, so a key never has two tasks and the task a
\* Start replaced is dead.
C7_OneTaskPerKey ==
  /\ \A k \in DOMAIN monitoringIntervals :
       monitoringIntervals[k] \in DOMAIN timers
  /\ \A i \in DOMAIN timers :
       /\ TaskKey(timers[i].config) \in DOMAIN monitoringIntervals
       /\ monitoringIntervals[TaskKey(timers[i].config)] = i

\* two /monitor commands have been answered and left one key: the second
\* Start found the task of the first under its key
C7_Witness ==
  /\ cmdCount = 2
  /\ cmds = {}
  /\ nextTimer = 3
  /\ Cardinality(DOMAIN monitoringIntervals) = 1
  /\ DOMAIN timers = {2}

\* the step in which stopMonitoring(c, r) returns
StopReturns(c, r) ==
  \/ StopBegin(c, r) /\ cmds' = cmds
  \/ \E cmd \in cmds, ok \in BOOLEAN :
       /\ cmd.op = "stop"
       /\ cmd.chatId = c
       /\ cmd.arg = r
       /\ StopResume(cmd, ok)

\* the value the call begun in this step returns or will return
BegunResult ==
  IF cmds' = cmds THEN reply'.result
  ELSE (CHOOSE cmd \in cmds' \ cmds : TRUE).ret

C8_Step(c, r) ==
  LET key == generateConfigKey(c, r)
  IN /\ StopBegin(c, r) => (BegunResult = (key \in DOMAIN monitoringIntervals))
     /\ StopReturns(c, r) =>
          /\ key \notin DOMAIN monitoringIntervals'
          /\ key \in DOMAIN configurations' => ~configurations'[key].isActive

\* C8: Stop returns true exactly when the key had a task; when it returns
\* the key has no task and the configuration stored under the key, if any,
\* is inactive.
C8_StopPostcondition ==
  [][\A c \in Chats, r \in TypedRoutes : C8_Step(c, r)]_vars

\* the step in which stopAllMonitoring(c) returns
StopAllReturns(c) ==
  \/ StopAllBegin(c) /\ cmds' = cmds
  \/ \E cmd \in cmds, ok \in BOOLEAN :
       /\ cmd.op = "stopAll"
       /\ cmd.chatId = c
       /\ StopResume(cmd, ok)

C9_Step(c) ==
  /\ StopAllBegin(c) =>
       BegunResult = Cardinality({k \in DOMAIN monitoringIntervals :
                                    StartsWith(k, c)})
  /\ StopAllReturns(c) =>
       /\ \A k \in DOMAIN monitoringIntervals' : ~StartsWith(k, c)
       /\ getActiveConfigurations(configurations', c) = << >>

\* C9: StopAll returns the number of tasks the chat had; when it returns
\* the chat has no task and no active configuration.
C9_StopAllPostcondition ==
  [][\A c \in Chats : C9_Step(c)]_vars

\* the timers that Stop, StopAll or a replacing Start have cancelled
Cancelled ==
  {i \in 1..(nextTimer - 1) : i \notin Range(monitoringIntervals)}

\* C10: no tick begins for a timer that was cancelled before the step.
C10_NoTickAfterCancel ==
  [][\A u \in ticks' \ ticks :
       u.pc = "fetch" => u.timer \notin Cancelled]_vars

\* Stop or StopAll has returned after cancelling a task while a tick of that
\* task is still in flight
C10_Witness ==
  /\ reply # None
  /\ \/ reply.op = "stop" /\ reply.result = TRUE
     \/ reply.op = "stopAll" /\ reply.result > 0
  /\ \E u \in ticks : u.timer \in Cancelled /\ u.config.chatId = reply.chatId

\* C11: when the process has started again, every stored configuration
\* that is active has a task registered and configurations that are not
\* active have none.
C11_TasksRestored ==
  [][\A transportOk, storageOk \in BOOLEAN :
       Startup(transportOk, storageOk) =>
         \A k \in DOMAIN configurations' :
           configurations'[k].isActive
             <=> TaskKey(configurations'[k]) \in DOMAIN monitoringIntervals']_vars

\* the vehicle ids getVehiclePositions makes up when its request fails
MockVehicleIds ==
  {getMockVehicles(r.id, 0, 0)[i].id : r \in Range(RouteTable), i \in 1..2}

\* C12: a tick whose vehicle request failed notifies nobody and records
\* nothing: no notification and no recorded alert is for a made-up vehicle.
C12_FailedFetchSilent ==
  /\ \A i \in DOMAIN sent : sent[i].vehicleId \notin MockVehicleIds
  /\ \A k \in DOMAIN alerts :
       \A i \in DOMAIN alerts[k] : alerts[k][i].vehicleId \notin MockVehicleIds

\* C13, as stated: every inbound message that has been dealt with was
\* answered with exactly one delivered message.
C13_ExactlyOneResponse ==
  \A id \in DOMAIN inbox : inbox[id].pc = "done" => inbox[id].delivered = 1

\* C13, amended: no message is answered twice; a message that is not a
\* status or group message and has been dealt with was answered once, unless
\* the transport refused the apology, the last send tried, and then it was
\* not answered.
C13_OneResponseIfTransport ==
  \A id \in DOMAIN inbox :
    /\ inbox[id].delivered <= 1
    /\ (inbox[id].pc = "done" /\ ~inbox[id].group) =>
         inbox[id].delivered = IF "apology" \in inbox[id].refused THEN 0 ELSE 1

\* a response the transport refused was followed by a delivered apology
C13_Witness ==
  \E id \in DOMAIN inbox :
    /\ inbox[id].pc = "done"
    /\ inbox[id].refused = {"response"}
    /\ inbox[id].delivered = 1

Rejections == {"usage", "route", "way", "time", "stop"}

\* C14: a /monitor that validation rejects leaves the stored configurations,
\* the configurations file, the registered tasks and the live timers as they
\* were.
C14_RejectionChangesNothing ==
  [][\A c \in Chats, parts \in TypedParts :
       MonitorRefused(c, parts) =>
         /\ reply'.result \in Rejections
         /\ UNCHANGED << configurations, configFile, monitoringIntervals,
                         timers >>]_vars

\* a rejection that was answered while a configuration is stored and its
\* task runs
C14_Witness ==
  /\ reply # None
  /\ reply.op = "monitor"
  /\ reply.result \in Rejections
  /\ DOMAIN configurations # {}
  /\ DOMAIN monitoringIntervals # {}
  /\ DOMAIN timers # {}

Digits == {"0", "1", "2", "3", "4", "5", "6", "7", "8", "9"}

\* HH:MM
WellFormedTime(t) ==
  /\ Len(t) = 5
  /\ t[3] = ":"
  /\ \A i \in {1, 2, 4, 5} : t[i] \in Digits

\* C15: a /monitor whose route is unknown, whose stop is not on the route,
\* whose direction is neither ida nor volta, or whose trigger time is not
\* HH:MM is answered with a rejection and starts nothing.
C15_InvalidRejected ==
  [][\A c \in Chats, parts \in TypedParts :
       ( /\ MonitorCommand(c, parts)
         /\ Len(parts) >= 4
         /\ \/ findRoute(parts[1]) = None
            \/ parts[3] \notin {"ida", "volta"}
            \/ ~WellFormedTime(parts[4])
            \/ findStop(parts[2], findRoute(parts[1]).id) = None )
       => /\ cmds' = cmds
          /\ reply' # None
          /\ reply'.result \in Rejections]_vars

C17_Deactivate ==
  [][/\ \A c \in Chats, r \in StoreRoutes, writeOk \in BOOLEAN :
          StoreDeactivate(c, r, writeOk) =>
            LET key == generateConfigKey(c, r)
                got == getConfiguration(configurations', c, r)
                active == getActiveConfigurations(configurations', c)
            IN IF key \in DOMAIN configurations
               THEN /\ reply'.result = TRUE
                    /\ got # None
                    /\ got.isActive = FALSE
                    /\ \A f \in DOMAIN got \ {"isActive", "lastUpdated"} :
                         got[f] = configurations[key][f]
                    /\ \A i \in DOMAIN active : active[i] # got
                    /\ DOMAIN configurations' = DOMAIN configurations
                    /\ \A k \in DOMAIN configurations \ {key} :
                         configurations'[k] = configurations[k]
               ELSE /\ reply'.result = FALSE
                    /\ UNCHANGED << configurations, configFile >>
     /\ \A k \in DOMAIN configurations \cap DOMAIN configurations' :
          (~configurations[k].isActive /\ configurations'[k].isActive) =>
             reply'.op \in {"save", "update"}
     /\ \A c \in Chats :
          \A i \in DOMAIN getActiveConfigurations(configurations', c) :
            getActiveConfigurations(configurations', c)[i].isActive]_vars

\* a Deactivate returned true for a config that is still stored, while
\* another config of the same chat is active
C17_Witness ==
  /\ reply # None
  /\ reply.op = "deactivate"
  /\ reply.result = TRUE
  /\ getConfiguration(configurations, reply.chatId, reply.arg) # None
  /\ Len(getActiveConfigurations(configurations, reply.chatId)) = 1

\* C18: an operation of the store that reports success has written the
\* configurations it leaves in memory to the file.
C18_SuccessMeansWritten ==
  [][(cmdCount' # cmdCount /\ reply'.result = TRUE) =>
        configFile' = SerializeConfigurations(configurations')]_vars

\* C19: a start during which the chat transport or the storage fails leaves
\* the process down, not serving.
C19_StartupFailureIsFatal ==
  [][\A transportOk, storageOk \in BOOLEAN :
       (Startup(transportOk, storageOk) /\ ~(transportOk /\ storageOk))
         => status' = "down"]_vars

\* C20: no operation of the transit client throws, and one whose request
\* failed returns an empty or absent result.
C20_NeverThrows ==
  (reply # None /\ reply.op \in Operations) =>
     /\ reply.result.kind = "returns"
     /\ ~reply.requestOk =>
          (reply.result.value = None \/ reply.result.value = << >>)

\* C21: GetActive(chatId) returns exactly the stored configs whose chatId is
\* the argument and whose isActive is true, each once, newest createdAt
\* first.
C21_GetActiveExact ==
  [][(cmdCount' # cmdCount /\ reply'.op = "getActive") =>
       LET res == reply'.result
           mine == {k \in DOMAIN configurations :
                      configurations[k].chatId = reply'.chatId
                      /\ configurations[k].isActive}
       IN /\ Len(res) = Cardinality(mine)
          /\ {res[i] : i \in DOMAIN res} = {configurations[k] : k \in mine}
          /\ \A i, j \in DOMAIN res :
               i < j => res[i].createdAt >= res[j].createdAt]_vars

\* the routes for which alerts of the chat have been recorded
RoutesOf(hist, chatId) ==
  {r \in StoreRoutes : generateChatRouteKey(chatId, r) \in DOMAIN hist}

\* C22: without a routeId the statistics of a chat are the sums over the
\* histories of exactly that chat's routes, with one byRoute entry per such
\* route; with a routeId they are the counts of that one history; after a
\* Record for (chatId, routeId) the total of that history is above 0.
C22_Statistics ==
  [][/\ (cmdCount' # cmdCount /\ reply'.op = "statistics") =>
          LET c == reply'.chatId
              st == reply'.result
              own == RoutesOf(alerts, c)
              counts == [r \in own |->
                           RouteCounts(alerts[generateChatRouteKey(c, r)],
                                       now)]
          IN IF reply'.arg = << >>
             THEN /\ st.total = SumOver(own, [r \in own |-> counts[r].total])
                  /\ st.today = SumOver(own, [r \in own |-> counts[r].today])
                  /\ st.thisWeek =
                       SumOver(own, [r \in own |-> counts[r].thisWeek])
                  /\ DOMAIN st.byRoute = own
                  /\ \A r \in own : st.byRoute[r] = counts[r]
             ELSE /\ st.total = IF reply'.arg \in own
                                THEN counts[reply'.arg].total ELSE 0
                  /\ st.today = IF reply'.arg \in own
                                THEN counts[reply'.arg].today ELSE 0
                  /\ st.thisWeek = IF reply'.arg \in own
                                   THEN counts[reply'.arg].thisWeek ELSE 0
     /\ (cmdCount' # cmdCount /\ reply'.op = "record") =>
          /\ getAlertStatistics(alerts', now, reply'.chatId,
                                reply'.arg).total > 0
          /\ getAlertStatistics(alerts', now, reply'.chatId, << >>).total > 0
    ]_vars

Measured(p, q) ==
  /\ reply # None
  /\ reply.op = "calculateDistance"
  /\ reply.arg = << p, q >>

C24_LevelsRespected ==
  (/\ reply # None
   /\ reply.op = "shouldLog"
   /\ reply.arg[1] \in DOMAIN levels
   /\ reply.arg[2] \in DOMAIN levels)
  => (reply.result <=> levels[reply.arg[2]] <= levels[reply.arg[1]])

\* C25: no two ticks of the same monitor key are in flight at once.
C25_NoOverlappingTicks ==
  \A t1, t2 \in ticks :
    TaskKey(t1.config) = TaskKey(t2.config) => t1 = t2

\* C26: when no command is in progress, the keys that hold a polling task
\* are the keys of the stored configs that are active.
C26_TasksMatchActiveConfigs ==
  cmds = {} =>
    DOMAIN monitoringIntervals =
      {k \in DOMAIN configurations : configurations[k].isActive}

\* C27: when the send of a notification fails, the tick goes on with the
\* remaining vehicles (it is still in flight when one of them is due an
\* alert), and the monitor's timer stays registered.
C27_SendFailureSkipsOneVehicle ==
  [][\A tick \in ticks :
       SendDone(tick, FALSE) =>
         /\ timers' = timers
         /\ NextAlert(tick.config, tick.vehicles, tick.i + 1, sentAlerts,
                      alerts, now) # 0
              => \E t2 \in ticks' : t2.n = tick.n]_vars

\* C28: a notification is begun only for a vehicle whose distance is a number
\* not above the threshold of the config and for which shouldSendAlert has
\* just returned true; and every record and mark holds such a distance.
C28_OnlyNearVehiclesNotified ==
  [][/\ \A t2 \in ticks' :
          (t2.pc = "send" /\ t2 \notin ticks) =>
             LET v == t2.vehicles[t2.i]
             IN /\ v.distance # NaN
                /\ v.distance <= t2.config.proximityThreshold
                /\ shouldSendAlert(sentAlerts, alerts, now, t2.config.chatId,
                                   t2.config.routeId, v.id,
                                   t2.config.maxAlerts)
     /\ Len(sent') > Len(sent) =>
          \E tick \in ticks :
            /\ tick.pc = "send"
            /\ LessOrEqual(tick.vehicles[tick.i].distance,
                           tick.config.proximityThreshold)
            /\ sent'[Len(sent')].vehicleId = tick.vehicles[tick.i].id
     /\ \A k \in DOMAIN alerts' : \A i \in DOMAIN alerts'[k] :
          LessOrEqual(alerts'[k][i].distance, ProximityThreshold)
     /\ \A k \in DOMAIN sentAlerts' :
          LessOrEqual(sentAlerts'[k].distance, ProximityThreshold)]_vars

\* a vehicle at the threshold is being notified after a vehicle whose
\* distance is not a number was passed over in the same tick, and an alert of
\* another vehicle at the threshold is recorded
C28_Witness ==
  /\ \E tick \in ticks :
       /\ tick.pc = "send"
       /\ tick.i = 2
       /\ tick.vehicles[1].distance = NaN
       /\ tick.vehicles[2].distance = ProximityThreshold
  /\ \E k \in DOMAIN alerts : \E i \in DOMAIN alerts[k] :
       alerts[k][i].distance = ProximityThreshold

\* C29: once no command and no tick is in progress, the configurations file
\* is the serialized configurations map and the alerts file is the
\* serialized alert maps (every write having succeeded).
C29_FilesEqualMemory ==
  (cmds = {} /\ ticks = {}) =>
     /\ configFile = SerializeConfigurations(configurations)
     /\ alertsFile = SerializeAlerts(alerts, sentAlerts)

\* the cooldown test of shouldSendAlert for one triple
InCooldown(marks, t, k) ==
  /\ generateAlertKey(k[1], k[2], k[3]) \in DOMAIN marks
  /\ t - marks[generateAlertKey(k[1], k[2], k[3])].lastSent < cooldownPeriod

\* C30: recording an alert for one (chatId, routeId, vehicleId) puts no
\* other triple into cooldown, and changes the answer of shouldSendAlert
\* for no triple of another (chatId, routeId).
C30_RecordKeepsOtherTriples ==
  [][\A a \in KeyTriples, b \in KeyTriples :
       (AlertRecord(a[1], a[2], a[3], 300, TRUE) /\ b # a) =>
          /\ InCooldown(sentAlerts', now, b) => InCooldown(sentAlerts, now, b)
          /\ <<b[1], b[2]>> # <<a[1], a[2]>> =>
               (shouldSendAlert(sentAlerts', alerts', now, b[1], b[2], b[3],
                                MaxAlerts)
                 = shouldSendAlert(sentAlerts, alerts, now, b[1], b[2], b[3],
                                   MaxAlerts))]_vars

\* a step in which stopAllMonitoring(c) or deleteAllConfigurations(c) acts
BulkStep(c) ==
  /\ cmdCount' # cmdCount
  /\ \/ \E cmd \in cmds' \ cmds : cmd.op = "stopAll" /\ cmd.chatId = c
     \/ /\ cmds' = cmds
        /\ reply' # None
        /\ reply'.op \in {"stopAll", "deleteAll"}
        /\ reply'.chatId = c

\* C31: stopAllMonitoring(c) and deleteAllConfigurations(c) leave the
\* configs, the tasks and the timers of every other chat as they were.
C31_OtherChatsUntouched ==
  [][\A c \in SeparatorChats :
       BulkStep(c) =>
         /\ \A k \in DOMAIN configurations :
              configurations[k].chatId # c =>
                k \in DOMAIN configurations'
                  /\ configurations'[k] = configurations[k]
         /\ \A id \in DOMAIN timers :
              timers[id].config.chatId # c => id \in DOMAIN timers'
         /\ \A k \in DOMAIN monitoringIntervals :
              (monitoringIntervals[k] \in DOMAIN timers
                 /\ timers[monitoringIntervals[k]].config.chatId # c)
              => k \in DOMAIN monitoringIntervals']_vars

\* C32: a recordAlert call leaves in the (chatId, routeId) history the new
\* record last, before it the newest earlier records in their order, at most
\* 100 in all, and leaves every other history as it was.
C32_NewestHundredKept ==
  [][(cmdCount' # cmdCount /\ reply' # None /\ reply'.op = "record") =>
       LET key == generateChatRouteKey(reply'.chatId, reply'.arg)
           old == History(alerts, key)
           new == History(alerts', key)
           n == Len(new)
       IN /\ n = IF Len(old) + 1 > 100 THEN 100 ELSE Len(old) + 1
          /\ new[n].distance = Numbered(alerts, key)
          /\ \A i \in 1..(n - 1) : new[i] = old[Len(old) - (n - 1) + i]
          /\ \A k \in DOMAIN alerts : k # key => alerts'[k] = alerts[k]]_vars

\* a history at its cap whose two oldest records have been dropped
C32_Witness ==
  \E k \in DOMAIN alerts :
    Len(alerts[k]) = 100 /\ alerts[k][1].distance = 3

\* a step of cleanupOldAlerts
SweepStep == cmdCount' # cmdCount /\ reply' # None /\ reply'.op = "cleanup"

\* what a sweep leaves, for a retention of at most `most` and at least
\* `least` days
SweptWithin(least, most) ==
  /\ \A k \in DOMAIN alerts' : alerts'[k] # << >>
  /\ \A k \in DOMAIN alerts' : \A i \in DOMAIN alerts'[k] :
       now - alerts'[k][i].timestamp <= most * 86400
  /\ \A k \in DOMAIN sentAlerts' :
       now - sentAlerts'[k].lastSent <= most * 86400
  /\ \A k \in DOMAIN alerts :
       SelectSeq(alerts[k],
                 LAMBDA alert : now - alert.timestamp < least * 86400)
         = SelectSeq(History(alerts', k),
                     LAMBDA alert : now - alert.timestamp < least * 86400)
  /\ \A k \in DOMAIN sentAlerts :
       now - sentAlerts[k].lastSent < least * 86400 =>
         k \in DOMAIN sentAlerts' /\ sentAlerts'[k] = sentAlerts[k]

C34_SweepKeepsDecisions ==
  [][SweepStep =>
       \A v \in Vehicles, maxAlerts \in 1..3 :
         shouldSendAlert(sentAlerts', alerts', now, <<"c1">>, <<"001">>, v,
                         maxAlerts)
           = shouldSendAlert(sentAlerts, alerts, now, <<"c1">>, <<"001">>,
                             v, maxAlerts)]_vars

\* a sweep has removed something while one vehicle is in its cooldown and
\* another is not
C34_Witness ==
  /\ reply # None
  /\ reply.op = "cleanup"
  /\ reply.result > 0
  /\ ~shouldSendAlert(sentAlerts, alerts, now, <<"c1">>, <<"001">>, <<"v1">>,
                      3)
  /\ shouldSendAlert(sentAlerts, alerts, now, <<"c1">>, <<"001">>, <<"v2">>,
                     3)

\* C35: whatever becomes of the ticks of the other key, a due callback of
\* a key runs and every tick of the key comes to its end.
C35_OtherKeyTicksRun ==
  /\ (now >= timers[1].due) ~> (now < timers[1].due)
  /\ \A n \in 1..3 :
       (\E tick \in ticks : tick.n = n /\ tick.timer = 1)
         ~> ~(\E tick \in ticks : tick.n = n)

\* the second tick of timer 1 has started and ended while an earlier tick
\* of timer 2 is still suspended in its fetch or its send
C35_Witness ==
  /\ tickCount = 3
  /\ timers[1].due = StartTime + 160
  /\ \E tick \in ticks :
       tick.timer = 2 /\ tick.n < 3 /\ tick.pc \in {"fetch", "send"}
  /\ ~(\E tick \in ticks : tick.timer = 1)

\* C36: a response or an apology is delivered for a message only when every
\* earlier message of the same chat has been dealt with to its end.
C36_ResponsesInOrder ==
  [][\A id \in DOMAIN inbox :
       inbox'[id].delivered > inbox[id].delivered =>
         \A j \in DOMAIN inbox :
           (j < id /\ inbox[j].chatId = inbox[id].chatId /\ ~inbox[j].group)
             => inbox[j].pc = "done"]_vars

\* a step in which a /monitor command is answered
MonitorAnswered ==
  /\ reply' # None
  /\ reply'.op = "monitor"
  /\ \/ cmdCount' # cmdCount /\ cmds' = cmds
     \/ cmdCount' = cmdCount /\ cmds' # cmds

\* C37: a /monitor answered with the confirmation has its config stored as
\* active and a task running under the key of the command; a /monitor
\* answered otherwise has saved no config and started no task.
C37_MonitorAllOrNothing ==
  [][MonitorAnswered =>
       LET key == generateConfigKey(reply'.chatId, reply'.arg)
       IN /\ reply'.result = "started" =>
               /\ key \in DOMAIN configurations'
               /\ configurations'[key].isActive
               /\ key \in DOMAIN monitoringIntervals'
          /\ reply'.result # "started" =>
               /\ cmds' = cmds
               /\ configurations' = configurations
               /\ timers' = timers
               /\ monitoringIntervals' = monitoringIntervals]_vars

\* C38: a load that completes leaves every entry the maps already hold as
\* it is.
C38_LoadKeepsMutations ==
  [][(cmds' # cmds /\ cmdCount' = cmdCount /\ reply' # None
        /\ reply'.op = "load") =>
       /\ \A k \in DOMAIN configurations :
            configurations'[k] = configurations[k]
       /\ \A k \in DOMAIN alerts : alerts'[k] = alerts[k]
       /\ \A k \in DOMAIN sentAlerts : sentAlerts'[k] = sentAlerts[k]]_vars

====
